---- MODULE Spec2Model ----
(***************************************************************************)
(* A model of the IDN decoder of indigo (src/src/encoding/idn): the lexer, *)
(* the token windows, the reader with its shared error list, the list and  *)
(* declaration helpers, the primitive decode rules and the top-level       *)
(* parse function.                                                         *)
(*                                                                         *)
(* Characters are one-character strings and an input text is a sequence of *)
(* characters.  Every character of the model is ASCII, so a character is   *)
(* one byte long (Pos::advance adds c.len_utf8()).                         *)
(***************************************************************************)
EXTENDS Integers, Sequences, FiniteSets, TLC

VARIABLES
  input,    \* the text handed to lex / parse
  lexer,    \* the Lexer struct: input, pos, errors, open_delims, tokens
  lexres,   \* what lex returned: tag "none" while the scan runs, then Ok / Err
  pc,       \* position of the driver (parse, or the client of the Reader API)
  cells,    \* the RefCell<ErrorList> cells of the contexts, by cell number
  log,      \* every error handed to ErrorList::add through a context, in order
  readers,  \* the live Readers of the client, the root reader first
  last,     \* the last Reader operation the client called, with its outcome
  ty,       \* the type parameter T of parse<T>
  result    \* what parse returned

vars == <<input, lexer, lexres, pc, cells, log, readers, last, ty, result>>

----------------------------------------------------------------------------
(* Bounds of the model.                                                    *)

MaxLexLen == 4
MaxParseLexemes == 4
MaxVecItems == 3
MaxElements == 2
MaxCalls == 3
MaxReaders == 3
MaxErrors == 2

----------------------------------------------------------------------------
(* Characters.                                                             *)

OpenDelims == {"(", "[", "{"}
CloseDelims == {")", "]", "}"}
Quotes == {"\"", "'"}
Digits == {"0", "1", "2", "3", "4", "5", "6", "7", "8", "9"}
Letters ==
  {"a", "b", "c", "d", "e", "f", "g", "h", "i", "j", "k", "l", "m", "n", "o",
   "p", "q", "r", "s", "t", "u", "v", "w", "x", "y", "z", "A", "B", "C", "D",
   "E", "F", "G", "H", "I", "J", "K", "L", "M", "N", "O", "P", "Q", "R", "S",
   "T", "U", "V", "W", "X", "Y", "Z"}
Whitespace == {" ", "\n", "\t", "\r"}
SymbolChars ==
  {"!", "%", "&", "*", ",", ".", "/", "\\", ":", ";", "<", ">", "=", "?", "^",
   "+", "-"}

IsWordStartChar(c) == c \in {"$", "@", "#"} \/ c \in Letters
IsWordContinueChar(c) ==
  c \in {"$", "@", "#"} \/ c \in Letters \/ c \in Digits \/ c = "_"

RevChar(c) ==
  CASE c = "(" -> ")"
    [] c = "[" -> "]"
    [] c = "{" -> "}"
    [] c = ")" -> "("
    [] c = "]" -> "["
    [] c = "}" -> "{"
    [] OTHER -> c

----------------------------------------------------------------------------
(* Positions, spans and errors.                                            *)

PosDefault == [offset |-> 0, line |-> 1, column |-> 1]

PosAdvance(p, c) ==
  IF c = "\n"
    THEN [offset |-> p.offset + 1, line |-> p.line + 1, column |-> 1]
    ELSE [offset |-> p.offset + 1, line |-> p.line, column |-> p.column + 1]

RECURSIVE PosAdvanceStr(_, _)
PosAdvanceStr(p, s) ==
  IF s = <<>> THEN p ELSE PosAdvanceStr(PosAdvance(p, Head(s)), Tail(s))

SpanOfPos(p) == [start |-> p, end |-> p]
SpanOfRange(a, b) == [start |-> a, end |-> b]

PosMin(a, b) == IF b.offset < a.offset THEN b ELSE a
PosMax(a, b) == IF b.offset > a.offset THEN b ELSE a
SpanAdd(a, b) == [start |-> PosMin(a.start, b.start), end |-> PosMax(a.end, b.end)]

IntMax(a, b) == IF a >= b THEN a ELSE b
IntMin(a, b) == IF a <= b THEN a ELSE b

SpanLastLine(s) ==
  IF s.end.column = 1 THEN IntMax(s.end.line - 1, s.start.line) ELSE s.end.line

ErrorNew(span, message) == [message |-> message, span |-> span]

ErrorListAdd(errors, err) == Append(errors, err)

----------------------------------------------------------------------------
(* Tokens.                                                                 *)

DelimiterNew(span, c) == [kind |-> "Delimiter", value |-> c, span |-> span]
SymbolNew(span, c) == [kind |-> "Symbol", value |-> c, span |-> span]
WordNew(span, s) == [kind |-> "Word", value |-> s, span |-> span]
StringLiteralNew(span, s) == [kind |-> "StringLiteral", value |-> s, span |-> span]
IntegerNew(span, n) == [kind |-> "Integer", value |-> n, span |-> span]
FloatNew(span, s) == [kind |-> "Float", value |-> s, span |-> span]

DelimiterIsOpen(d) == d.value \in OpenDelims

----------------------------------------------------------------------------
(* The lexer (lex.rs).  A lexer operation returns the lexer it leaves and  *)
(* err: <<>> for Ok, <<e>> for the fatal Err(e) it aborted with.           *)

LexerNew(text) ==
  [input |-> text, open_delims |-> <<>>, errors |-> <<>>, pos |-> PosDefault,
   tokens |-> <<>>]

LexOk(lx) == [lx |-> lx, err |-> <<>>]
LexAbort(lx, span, message) == [lx |-> lx, err |-> <<ErrorNew(span, message)>>]

AddToken(lx, token) == [lx EXCEPT !.tokens = Append(@, token)]

IsEof(lx) == lx.pos.offset >= Len(lx.input)

PeekChar(lx) == IF IsEof(lx) THEN <<>> ELSE <<lx.input[lx.pos.offset + 1]>>

PeekCharExact(lx, c) == PeekChar(lx) = <<c>>

PeekNumberDecimal(lx) ==
  /\ lx.pos.offset + 2 <= Len(lx.input)
  /\ lx.input[lx.pos.offset + 1] = "."
  /\ lx.input[lx.pos.offset + 2] \in Digits

PeekStrExact(lx, s) ==
  /\ lx.pos.offset + Len(s) <= Len(lx.input)
  /\ SubSeq(lx.input, lx.pos.offset + 1, lx.pos.offset + Len(s)) = s

\* The result also carries the Spanned<char>: value and span.
ReadChar(lx) ==
  IF IsEof(lx)
    THEN [lx |-> lx,
          err |-> <<ErrorNew(SpanOfPos(lx.pos), <<"Unexpected end of input.">>)>>,
          value |-> "", span |-> SpanOfPos(lx.pos)]
    ELSE LET c == lx.input[lx.pos.offset + 1]
             next == PosAdvance(lx.pos, c)
         IN [lx |-> [lx EXCEPT !.pos = next], err |-> <<>>, value |-> c,
             span |-> SpanOfRange(lx.pos, next)]

ReadCharExact(lx, expected) ==
  IF IsEof(lx)
    THEN LexAbort(lx, SpanOfPos(lx.pos), <<"Expected {}.", expected>>)
    ELSE LET c == ReadChar(lx)
         IN IF c.value # expected
              THEN LexAbort(c.lx, c.span, <<"Expected {}, found {}.", expected, c.value>>)
              ELSE LexOk(c.lx)

ReadStrExact(lx, literal) ==
  IF ~PeekStrExact(lx, literal)
    THEN LexAbort(lx, SpanOfPos(lx.pos), <<"Expected literal {}.", literal>>)
    ELSE LexOk([lx EXCEPT !.pos = PosAdvanceStr(@, literal)])

RECURSIVE ReadCommentLine(_)
ReadCommentLine(lx) ==
  IF IsEof(lx) THEN lx
  ELSE LET c == ReadChar(lx)
       IN IF c.value = "\n" THEN c.lx ELSE ReadCommentLine(c.lx)

ReadComment(lx) ==
  LET open == ReadStrExact(lx, <<"/", "/">>)
  IN IF open.err # <<>> THEN open ELSE LexOk(ReadCommentLine(open.lx))

RECURSIVE ReadCommentBody(_)
ReadCommentBody(lx) ==
  IF ~IsEof(lx) /\ ~PeekStrExact(lx, <<"*", "/">>)
    THEN ReadCommentBody(ReadChar(lx).lx)
    ELSE lx

ReadCommentMultiline(lx) ==
  LET open == ReadStrExact(lx, <<"/", "*">>)
  IN IF open.err # <<>> THEN open
     ELSE ReadStrExact(ReadCommentBody(open.lx), <<"*", "/">>)

\* read_delimiter with a nesting counter in place of the match against the top
\* of the stack: any closing delimiter closes the innermost open one.
ReadDelimiterCounting(lx) ==
  LET Read(c) ==
        IF c.err # <<>> THEN [lx |-> c.lx, err |-> c.err]
        ELSE IF c.value \in OpenDelims
          THEN LexOk([AddToken(c.lx, DelimiterNew(c.span, c.value))
                        EXCEPT !.open_delims = Append(@, DelimiterNew(c.span, c.value))])
        ELSE IF c.value \in CloseDelims /\ c.lx.open_delims # <<>>
          THEN LexOk([AddToken(c.lx, DelimiterNew(c.span, c.value))
                        EXCEPT !.open_delims = SubSeq(@, 1, Len(@) - 1)])
        ELSE LexAbort(c.lx, c.span, <<"Unexpected {}.", c.value>>)
  IN Read(ReadChar(lx))

ReadDelimiter(lx) ==
  LET Close(c, stack, popped) ==
        IF stack = <<>>
          THEN LexAbort(popped, c.span, <<"Unexpected {}.", c.value>>)
        ELSE IF RevChar(stack[Len(stack)].value) = c.value
          THEN LexOk(AddToken(popped, DelimiterNew(c.span, c.value)))
        ELSE LexAbort(popped, c.span,
                      <<"Expected {}, found {}.", RevChar(stack[Len(stack)].value),
                        c.value>>)
      Read(c) ==
        IF c.err # <<>> THEN [lx |-> c.lx, err |-> c.err]
        ELSE IF c.value \in OpenDelims
          THEN LexOk([AddToken(c.lx, DelimiterNew(c.span, c.value))
                        EXCEPT !.open_delims = Append(@, DelimiterNew(c.span, c.value))])
        ELSE IF c.value \in CloseDelims
          THEN Close(c, c.lx.open_delims,
                     [c.lx EXCEPT !.open_delims =
                        IF @ = <<>> THEN <<>> ELSE SubSeq(@, 1, Len(@) - 1)])
        ELSE LexAbort(c.lx, c.span, <<"Unexpected {}.", c.value>>)
  IN Read(ReadChar(lx))

RECURSIVE ReadDigitsRest(_)
ReadDigitsRest(lx) ==
  IF PeekChar(lx) # <<>> /\ PeekChar(lx)[1] \in Digits
    THEN ReadDigitsRest(ReadChar(lx).lx)
    ELSE lx

ReadNumberDigits(lx) ==
  LET c == ReadChar(lx)
  IN IF c.err # <<>> THEN [lx |-> c.lx, err |-> c.err]
     ELSE IF c.value \notin Digits
       THEN LexAbort(c.lx, c.span, <<"Expected digit, found {}.", c.value>>)
     ELSE LexOk(ReadDigitsRest(c.lx))

ReadNumberDecimal(lx) ==
  LET dot == ReadCharExact(lx, ".")
  IN IF dot.err # <<>> THEN dot ELSE ReadNumberDigits(dot.lx)

DigitValue(c) ==
  CASE c = "0" -> 0 [] c = "1" -> 1 [] c = "2" -> 2 [] c = "3" -> 3
    [] c = "4" -> 4 [] c = "5" -> 5 [] c = "6" -> 6 [] c = "7" -> 7
    [] c = "8" -> 8 [] c = "9" -> 9

RECURSIVE DecimalValue(_)
DecimalValue(s) ==
  IF s = <<>> THEN 0
  ELSE DecimalValue(SubSeq(s, 1, Len(s) - 1)) * 10 + DigitValue(s[Len(s)])

RECURSIVE StripZeros(_)
StripZeros(s) == IF s # <<>> /\ Head(s) = "0" THEN StripZeros(Tail(s)) ELSE s

U64MaxDigits ==
  <<"1", "8", "4", "4", "6", "7", "4", "4", "0", "7", "3", "7", "0", "9", "5",
    "5", "1", "6", "1", "5">>

RECURSIVE DigitsGreater(_, _)
DigitsGreater(a, b) ==
  /\ a # <<>>
  /\ \/ DigitValue(Head(a)) > DigitValue(Head(b))
     \/ Head(a) = Head(b) /\ DigitsGreater(Tail(a), Tail(b))

\* str::parse::<u64>: fails exactly when the decimal value exceeds u64::MAX.
ParseU64Fails(s) ==
  LET d == StripZeros(s)
  IN \/ Len(d) > Len(U64MaxDigits)
     \/ Len(d) = Len(U64MaxDigits) /\ DigitsGreater(d, U64MaxDigits)

ReadNumber(lx) ==
  LET start_pos == lx.pos
      \* "Parse the input source."
      Source(end, is_float) ==
        LET source == SubSeq(lx.input, start_pos.offset + 1, end.pos.offset)
            span == SpanOfRange(start_pos, end.pos)
        IN IF is_float THEN LexOk(AddToken(end, FloatNew(span, source)))
           ELSE IF ParseU64Fails(source)
             THEN LexAbort(end, span, <<"Failed to parse integer value.">>)
           ELSE LexOk(AddToken(end, IntegerNew(span, DecimalValue(source))))
      ExponentDigits(digits) ==
        IF digits.err # <<>> THEN digits ELSE Source(digits.lx, TRUE)
      \* "Read an optional exponent part."
      Exponent(mantissa, is_float) ==
        IF mantissa.err # <<>> THEN mantissa
        ELSE IF PeekCharExact(mantissa.lx, "e") \/ PeekCharExact(mantissa.lx, "E")
          THEN ExponentDigits(ReadNumberDigits(ReadChar(mantissa.lx).lx))
        ELSE Source(mantissa.lx, is_float)
      Suffix(digits) ==
        IF digits.err = <<>> /\ PeekNumberDecimal(digits.lx)
          THEN Exponent(ReadNumberDecimal(digits.lx), TRUE)
          ELSE Exponent(digits, FALSE)
  IN IF PeekCharExact(lx, ".")
       THEN Exponent(ReadNumberDecimal(lx), TRUE)
       ELSE Suffix(ReadNumberDigits(lx))

\* read_string_escape pushing the character of an unknown escape to the
\* output.  The result carries the lexer and the string written so far.
ReadStringEscapeKept(lx, output) ==
  IF IsEof(lx) THEN [lx |-> lx, output |-> output]
  ELSE LET c == ReadChar(lx)
       IN CASE c.value = "n" -> [lx |-> c.lx, output |-> Append(output, "\n")]
            [] c.value = "r" -> [lx |-> c.lx, output |-> Append(output, "\r")]
            [] c.value \in {"\\", "'", "\""} ->
                 [lx |-> c.lx, output |-> Append(output, c.value)]
            [] OTHER ->
                 [lx |-> [c.lx EXCEPT !.errors =
                            ErrorListAdd(@, ErrorNew(c.span,
                                                     <<"Unknown string escape {}.", c.value>>))],
                  output |-> Append(output, c.value)]

\* The result carries the lexer and the string written so far.
ReadStringEscape(lx, output) ==
  IF IsEof(lx) THEN [lx |-> lx, output |-> output]
  ELSE LET c == ReadChar(lx)
       IN CASE c.value = "n" -> [lx |-> c.lx, output |-> Append(output, "\n")]
            [] c.value = "r" -> [lx |-> c.lx, output |-> Append(output, "\r")]
            [] c.value \in {"\\", "'", "\""} ->
                 [lx |-> c.lx, output |-> Append(output, c.value)]
            [] OTHER ->
                 [lx |-> [c.lx EXCEPT !.errors =
                            ErrorListAdd(@, ErrorNew(c.span,
                                                     <<"Unknown string escape {}.", c.value>>))],
                  output |-> output]

RECURSIVE ReadStringContents(_, _, _)
ReadStringContents(lx, delim, contents) ==
  IF PeekChar(lx) # <<>> /\ PeekChar(lx)[1] # delim
    THEN LET c == ReadChar(lx)
         IN IF c.value = "\\"
              THEN LET e == ReadStringEscape(c.lx, contents)
                   IN ReadStringContents(e.lx, delim, e.output)
              ELSE ReadStringContents(c.lx, delim, Append(contents, c.value))
    ELSE [lx |-> lx, output |-> contents]

ReadString(lx) ==
  LET start_pos == lx.pos
      Close(body, close) ==
        IF close.err # <<>> THEN close
        ELSE LexOk(AddToken(close.lx,
                            StringLiteralNew(SpanOfRange(start_pos, close.lx.pos),
                                             body.output)))
      Contents(delim, body) == Close(body, ReadCharExact(body.lx, delim.value))
      Open(delim) ==
        IF delim.err # <<>> THEN [lx |-> delim.lx, err |-> delim.err]
        ELSE IF delim.value \notin Quotes
          THEN LexAbort(delim.lx, delim.span, <<"Unexpected {}.", delim.value>>)
        ELSE Contents(delim, ReadStringContents(delim.lx, delim.value, <<>>))
  IN Open(ReadChar(lx))

ReadSymbolToken(lx) ==
  LET c == ReadChar(lx)
  IN IF c.err # <<>> THEN [lx |-> c.lx, err |-> c.err]
     ELSE IF c.value \in SymbolChars THEN LexOk(AddToken(c.lx, SymbolNew(c.span, c.value)))
     ELSE LexAbort(c.lx, c.span, <<"Unexpected {}.", c.value>>)

RECURSIVE ReadWordRest(_)
ReadWordRest(lx) ==
  IF PeekChar(lx) # <<>> /\ IsWordContinueChar(PeekChar(lx)[1])
    THEN ReadWordRest(ReadChar(lx).lx)
    ELSE lx

ReadWordToken(lx) ==
  LET start_pos == lx.pos
      Rest(c, end) ==
        LexOk(AddToken(end,
                       WordNew(SpanOfRange(start_pos, end.pos),
                               SubSeq(lx.input, start_pos.offset + 1, end.pos.offset))))
      Start(c) ==
        IF c.err # <<>> THEN [lx |-> c.lx, err |-> c.err]
        ELSE IF ~IsWordStartChar(c.value)
          THEN LexAbort(c.lx, c.span, <<"Unexpected {}.", c.value>>)
        ELSE Rest(c, ReadWordRest(c.lx))
  IN Start(ReadChar(lx))

\* Which arm of the match in Lexer::run takes the next character.
RunArm(lx) ==
  LET c == PeekChar(lx)[1]
  IN CASE c \in OpenDelims \cup CloseDelims -> "delimiter"
       [] c \in Quotes -> "string"
       [] c = "/" /\ PeekStrExact(lx, <<"/", "/">>) -> "comment"
       [] c = "/" /\ PeekStrExact(lx, <<"/", "*">>) -> "comment_multiline"
       [] c = "." /\ PeekNumberDecimal(lx) -> "number_decimal"
       [] c \in Digits -> "number"
       [] c \notin Digits /\ IsWordStartChar(c) -> "word"
       [] c \notin Digits /\ ~IsWordStartChar(c) /\ c \in Whitespace -> "whitespace"
       [] OTHER -> "symbol"

\* One pass of the loop of Lexer::run.
RunStep(lx) ==
  LET Arm(arm) ==
        CASE arm = "delimiter" -> ReadDelimiter(lx)
          [] arm = "string" -> ReadString(lx)
          [] arm = "comment" -> ReadComment(lx)
          [] arm = "comment_multiline" -> ReadCommentMultiline(lx)
          [] arm \in {"number_decimal", "number"} -> ReadNumber(lx)
          [] arm = "word" -> ReadWordToken(lx)
          [] arm = "whitespace" -> [lx |-> ReadChar(lx).lx, err |-> ReadChar(lx).err]
          [] OTHER -> ReadSymbolToken(lx)
  IN Arm(RunArm(lx))

RECURSIVE UnmatchedErrors(_)
UnmatchedErrors(delims) ==
  IF delims = <<>> THEN <<>>
  ELSE <<ErrorNew(Head(delims).span, <<"Unmatched {}.", Head(delims).value>>)>>
         \o UnmatchedErrors(Tail(delims))

\* The end of Lexer::run reporting the innermost unmatched delimiter only.
RunDrainInnermost(lx) ==
  [lx EXCEPT !.errors = IF lx.open_delims = <<>> THEN @
                        ELSE @ \o UnmatchedErrors(<<lx.open_delims[Len(lx.open_delims)]>>),
             !.open_delims = <<>>]

\* The end of Lexer::run, after the loop: one error for each unmatched delimiter.
RunDrain(lx) ==
  [lx EXCEPT !.errors = @ \o UnmatchedErrors(lx.open_delims), !.open_delims = <<>>]

----------------------------------------------------------------------------
(* Token windows (syn/tokens.rs).  A window is the shared array (list, and *)
(* id, the identity of its allocation), the range start..end into it and   *)
(* the cached span.                                                        *)

TokensList(w) == SubSeq(w.list, w.start + 1, w.end)

TokensUpdateSpan(w) ==
  LET l == TokensList(w)
  IN [w EXCEPT !.span =
        IF Len(l) = 0 THEN SpanOfPos(w.span.start)
        ELSE IF Len(l) = 1 THEN l[1].span
        ELSE SpanAdd(l[1].span, l[Len(l)].span)]

TokensNew(id, span, list) ==
  TokensUpdateSpan([id |-> id, list |-> list, start |-> 0, end |-> Len(list),
                    span |-> span])

TokensIsEmpty(w) == Len(TokensList(w)) = 0

\* Option<&Token>: <<>> for None, <<t>> for Some(t).
TokensPeek(w) == IF TokensIsEmpty(w) THEN <<>> ELSE <<TokensList(w)[1]>>

\* next raising the start of the range whether or not a token is left.
TokensNextUnguarded(w) ==
  [tokens |-> TokensUpdateSpan([w EXCEPT !.start = @ + 1]), token |-> TokensPeek(w)]

TokensNext(w) ==
  IF TokensPeek(w) = <<>> THEN [tokens |-> w, token |-> <<>>]
  ELSE [tokens |-> TokensUpdateSpan([w EXCEPT !.start = @ + 1]),
        token |-> TokensPeek(w)]

TokensPop(w) ==
  TokensUpdateSpan(
    [w EXCEPT !.end = IntMin(w.end, IntMax(w.start, IF w.end = 0 THEN 0 ELSE w.end - 1))])

\* truncate_before comparing no array: the window is cut at the start of seq
\* whatever array seq is a window of.
TokensTruncateBeforeAny(w, seq) ==
  TokensUpdateSpan([w EXCEPT !.end = IntMin(w.end, IntMax(w.start, seq.start))])

TokensTruncateBefore(w, seq) ==
  IF w.id # seq.id THEN w
  ELSE TokensUpdateSpan([w EXCEPT !.end = IntMin(w.end, IntMax(w.start, seq.start))])

RECURSIVE TokensDrain(_)
TokensDrain(w) ==
  LET n == TokensNext(w)
  IN IF n.token = <<>> THEN w ELSE TokensDrain(n.tokens)

----------------------------------------------------------------------------
(* lex (lex.rs).                                                           *)

RECURSIVE LexerRun(_)
LexerRun(lx) ==
  LET Step(s) == IF s.err # <<>> THEN s ELSE LexerRun(s.lx)
  IN IF PeekChar(lx) # <<>> THEN Step(RunStep(lx)) ELSE LexOk(RunDrain(lx))

\* lex succeeding whenever Lexer::run returned Ok, whatever the error list holds.
LexFinishOnRunOk(run, id) ==
  LET Result(lx) ==
        [lx |-> lx,
         res |-> IF run.err = <<>>
                   THEN [tag |-> "Ok",
                         tokens |-> TokensNew(id, SpanOfRange(PosDefault, lx.pos),
                                              lx.tokens)]
                   ELSE [tag |-> "Err", errors |-> lx.errors]]
  IN Result(IF run.err = <<>> THEN run.lx
            ELSE [run.lx EXCEPT !.errors = ErrorListAdd(@, run.err[1])])

\* What lex does with the outcome of Lexer::run: the lexer it leaves and its
\* result. id is the identity of the token array it allocates.
LexFinish(run, id) ==
  LET Result(lx) ==
        [lx |-> lx,
         res |-> IF Len(lx.errors) = 0
                   THEN [tag |-> "Ok",
                         tokens |-> TokensNew(id, SpanOfRange(PosDefault, lx.pos),
                                              lx.tokens)]
                   ELSE [tag |-> "Err", errors |-> lx.errors]]
  IN Result(IF run.err = <<>> THEN run.lx
            ELSE [run.lx EXCEPT !.errors = ErrorListAdd(@, run.err[1])])

Lex(text, id) == LexFinish(LexerRun(LexerNew(text)), id).res

----------------------------------------------------------------------------
(* Contexts, error lists and readers (ctx.rs, error.rs, reader.rs).        *)
(* The heap h holds the cells: h.cells[n] is the ErrorList in cell n, and  *)
(* h.log is every error added through add_error, in the order of the       *)
(* calls.  A Context is the cell its "errors" key maps to; a Reader is a   *)
(* Context and a token window.                                             *)
(*                                                                         *)
(* A reader operation returns the heap and the reader it leaves, a tag     *)
(* (Ok, Err for a fatal error, Panic for an unwrap / expect / unreachable  *)
(* that was hit), the value of an Ok (an Option is <<>> or <<v>>) and the  *)
(* error of an Err.                                                        *)

HeapNew == [cells |-> <<>>, log |-> <<>>]

\* Context::default handing out one ErrorList for every Context: the cell of
\* the first Context made.
ContextDefaultShared(h) ==
  IF h.cells = <<>> THEN [h |-> [h EXCEPT !.cells = Append(@, <<>>)], ctx |-> [errors |-> 1]]
  ELSE [h |-> h, ctx |-> [errors |-> 1]]

\* Context::default: a fresh cell holding an empty ErrorList.
ContextDefault(h) ==
  [h |-> [h EXCEPT !.cells = Append(@, <<>>)], ctx |-> [errors |-> Len(h.cells) + 1]]

\* Context::clone: the map is copied, the Rc cells are shared.
ContextClone(ctx) == ctx

ReaderNew(h, tokens) ==
  [h |-> ContextDefault(h).h, r |-> [ctx |-> ContextDefault(h).ctx, tokens |-> tokens]]

ReaderWithContext(ctx, tokens) == [ctx |-> ContextClone(ctx), tokens |-> tokens]

\* add_error on a reader whose Context holds a copy of the ErrorList: the error
\* is added to the copy, and the list the other readers see is left as it was.
ReaderAddErrorToCopy(h, r, err) == [cells |-> h.cells, log |-> Append(h.log, err)]

ReaderAddError(h, r, err) ==
  [cells |-> [h.cells EXCEPT ![r.ctx.errors] = ErrorListAdd(@, err)],
   log |-> Append(h.log, err)]

ReaderErrors(h, r) == h.cells[r.ctx.errors]

ROk(h, r, v) == [h |-> h, r |-> r, tag |-> "Ok", val |-> v, err |-> <<>>]
RErr(h, r, span, message) ==
  [h |-> h, r |-> r, tag |-> "Err", val |-> <<>>, err |-> <<ErrorNew(span, message)>>]
RPanic(h, r) == [h |-> h, r |-> r, tag |-> "Panic", val |-> <<>>, err |-> <<>>]

----------------------------------------------------------------------------
(* Elements and groups (syn/element.rs, syn/group.rs).  A Group element is *)
(* [kind |-> "Group", open, contents, close]; every other element is its   *)
(* token.                                                                  *)

ElementSpan(el) ==
  IF el.kind = "Group" THEN SpanAdd(el.open.span, el.close.span) ELSE el.span

DescribeElement(el) ==
  CASE el.kind = "Group" -> <<"group", el.open.value, el.close.value>>
    [] el.kind = "Float" -> <<"floating-point number">>
    [] el.kind = "Integer" -> <<"integer">>
    [] el.kind = "StringLiteral" -> <<"string">>
    [] el.kind = "Symbol" -> <<"symbol", el.value>>
    [] el.kind = "Word" -> <<"word", el.value>>

\* The loop closing the group at the first closing delimiter it meets, the
\* groups opened inside not counted.
RECURSIVE GroupCloseAtFirst(_, _, _, _)
GroupCloseAtFirst(open, contents, tokens, opened) ==
  LET Token(n) ==
        IF n.token = <<>> THEN [tokens |-> n.tokens, tag |-> "Panic", val |-> <<>>]
        ELSE IF n.token[1].kind = "Delimiter" /\ ~DelimiterIsOpen(n.token[1])
          THEN [tokens |-> n.tokens, tag |-> "Ok",
                val |-> <<[kind |-> "Group", open |-> open,
                           contents |-> TokensPop(TokensTruncateBefore(contents, n.tokens)),
                           close |-> n.token[1]]>>]
        ELSE GroupCloseAtFirst(open, contents, n.tokens, opened)
  IN Token(TokensNext(tokens))

\* The loop of Group::try_from_tokens without contents.pop(): the closing
\* delimiter stays in the contents.
RECURSIVE GroupCloseUnpopped(_, _, _, _)
GroupCloseUnpopped(open, contents, tokens, opened) ==
  LET Token(n) ==
        IF n.token = <<>> THEN [tokens |-> n.tokens, tag |-> "Panic", val |-> <<>>]
        ELSE IF n.token[1].kind = "Delimiter" /\ DelimiterIsOpen(n.token[1])
          THEN GroupCloseUnpopped(open, contents, n.tokens, opened + 1)
        ELSE IF n.token[1].kind = "Delimiter" /\ opened = 1
          THEN [tokens |-> n.tokens, tag |-> "Ok",
                val |-> <<[kind |-> "Group", open |-> open,
                           contents |-> TokensTruncateBefore(contents, n.tokens),
                           close |-> n.token[1]]>>]
        ELSE IF n.token[1].kind = "Delimiter"
          THEN GroupCloseUnpopped(open, contents, n.tokens, opened - 1)
        ELSE GroupCloseUnpopped(open, contents, n.tokens, opened)
  IN Token(TokensNext(tokens))

\* The loop of Group::try_from_tokens: tokens.next().unwrap() until the group
\* is closed.
RECURSIVE GroupClose(_, _, _, _)
GroupClose(open, contents, tokens, opened) ==
  LET Token(n) ==
        IF n.token = <<>> THEN [tokens |-> n.tokens, tag |-> "Panic", val |-> <<>>]
        ELSE IF n.token[1].kind = "Delimiter" /\ DelimiterIsOpen(n.token[1])
          THEN GroupClose(open, contents, n.tokens, opened + 1)
        ELSE IF n.token[1].kind = "Delimiter" /\ opened = 1
          THEN [tokens |-> n.tokens, tag |-> "Ok",
                val |-> <<[kind |-> "Group", open |-> open,
                           contents |-> TokensPop(TokensTruncateBefore(contents, n.tokens)),
                           close |-> n.token[1]]>>]
        ELSE IF n.token[1].kind = "Delimiter"
          THEN GroupClose(open, contents, n.tokens, opened - 1)
        ELSE GroupClose(open, contents, n.tokens, opened)
  IN Token(TokensNext(tokens))

GroupTryFromTokens(tokens) ==
  LET Open(open, rest) == GroupClose(open, rest, rest, 1)
  IN IF TokensPeek(tokens) = <<>> \/ TokensPeek(tokens)[1].kind # "Delimiter"
       THEN [tokens |-> tokens, tag |-> "Ok", val |-> <<>>]
       ELSE Open(TokensPeek(tokens)[1], TokensNext(tokens).tokens)

ElementFromIdn(h, r) ==
  LET Other(n) ==
        IF n.token = <<>>
          THEN RErr(h, [r EXCEPT !.tokens = n.tokens], n.tokens.span, <<"Expected element.">>)
        ELSE IF n.token[1].kind = "Delimiter"
          THEN RPanic(h, [r EXCEPT !.tokens = n.tokens])
        ELSE ROk(h, [r EXCEPT !.tokens = n.tokens], n.token[1])
      Group(g) ==
        IF g.tag = "Panic" THEN RPanic(h, [r EXCEPT !.tokens = g.tokens])
        ELSE IF g.val # <<>> THEN ROk(h, [r EXCEPT !.tokens = g.tokens], g.val[1])
        ELSE Other(TokensNext(g.tokens))
  IN Group(GroupTryFromTokens(r.tokens))

ElementTryFromIdn(h, r) ==
  LET Expect(x) ==
        IF x.tag = "Ok" THEN ROk(x.h, x.r, <<x.val>>) ELSE RPanic(x.h, x.r)
  IN IF TokensIsEmpty(r.tokens) THEN ROk(h, r, <<>>) ELSE Expect(ElementFromIdn(h, r))

ElementIs(name, el) ==
  IF name = "Number" THEN el.kind \in {"Integer", "Float"} ELSE el.kind = name

\* impl_for_element!: FromIdn for syn::Group, Number, StringLiteral, Symbol, Word.
SynFromIdn(name, desc, h, r) ==
  LET Match(el) ==
        IF el.tag = "Panic" THEN el
        ELSE IF el.val = <<>>
          THEN RErr(el.h, el.r, el.r.tokens.span, <<"Expected {}.", desc>>)
        ELSE IF ElementIs(name, el.val[1]) THEN ROk(el.h, el.r, el.val[1])
        ELSE RErr(el.h, el.r, ElementSpan(el.val[1]),
                  <<"Expected {}, found {}.", desc, DescribeElement(el.val[1])>>)
  IN Match(ElementTryFromIdn(h, r))

----------------------------------------------------------------------------
(* Reader operations (reader.rs, syn/symbol.rs, syn/word.rs, syn/group.rs).*)

\* finish leaving the tokens after the unexpected element in the window.
ReaderFinishFirstOnly(h, r) ==
  LET Report(el) ==
        IF el.tag = "Panic" THEN el
        ELSE ROk(IF el.val = <<>> THEN el.h
                 ELSE ReaderAddError(el.h, el.r,
                                     ErrorNew(ElementSpan(el.val[1]),
                                              <<"Unexpected {}.", DescribeElement(el.val[1])>>)),
                 el.r, <<>>)
  IN Report(ElementTryFromIdn(h, r))

ReaderFinish(h, r) ==
  LET Drain(el) ==
        IF el.tag = "Panic" THEN el
        ELSE ROk(IF el.val = <<>> THEN el.h
                 ELSE ReaderAddError(el.h, el.r,
                                     ErrorNew(ElementSpan(el.val[1]),
                                              <<"Unexpected {}.", DescribeElement(el.val[1])>>)),
                 [el.r EXCEPT !.tokens = TokensDrain(@)], <<>>)
  IN Drain(ElementTryFromIdn(h, r))

ReaderSkip(h, r) ==
  LET Some(el) == IF el.tag = "Panic" THEN el ELSE ROk(el.h, el.r, el.val # <<>>)
  IN Some(ElementTryFromIdn(h, r))

\* expected is the set of the characters of the string expected.
OneOf(expected) == IF Cardinality(expected) = 1 THEN "" ELSE "one of "

ReaderReadSymbol(h, r, expected) ==
  LET Match(el) ==
        IF el.tag = "Panic" THEN el
        ELSE IF el.val = <<>>
          THEN RErr(el.h, el.r, el.r.tokens.span, <<"Expected {}{}.", OneOf(expected), expected>>)
        ELSE IF el.val[1].kind = "Symbol" /\ el.val[1].value \in expected
          THEN ROk(el.h, el.r, el.val[1])
        ELSE RErr(el.h, el.r, ElementSpan(el.val[1]),
                  <<"Expected {}{}, found {}.", OneOf(expected), expected,
                    DescribeElement(el.val[1])>>)
  IN Match(ElementTryFromIdn(h, r))

\* try_read_symbol reading the next element before it looks at it.
ReaderTryReadSymbolConsuming(h, r, expected) ==
  LET Match(el) ==
        IF el.tag = "Panic" THEN el
        ELSE IF /\ el.val # <<>>
                /\ el.val[1].kind = "Symbol"
                /\ el.val[1].value \in expected
          THEN ROk(el.h, el.r, el.val)
        ELSE ROk(el.h, el.r, <<>>)
  IN Match(ElementTryFromIdn(h, r))

ReaderTryReadSymbol(h, r, expected) ==
  LET Expect(x) ==
        IF x.tag = "Ok" THEN ROk(x.h, x.r, <<x.val>>) ELSE RPanic(x.h, x.r)
      Matches(token) ==
        token # <<>> /\ token[1].kind = "Symbol" /\ token[1].value \in expected
  IN IF ~Matches(TokensPeek(r.tokens)) THEN ROk(h, r, <<>>)
     ELSE Expect(SynFromIdn("Symbol", "symbol", h, r))

\* try_read_word comparing the word with expected without regard to case.
ReaderTryReadWordAnyCase(h, r, expected) ==
  LET Expect(x) ==
        IF x.tag = "Ok" THEN ROk(x.h, x.r, <<x.val>>) ELSE RPanic(x.h, x.r)
      Lower(c) == CASE c = "N" -> "n" [] c = "O" -> "o" [] c = "E" -> "e" [] OTHER -> c
      Matches(token) ==
        /\ token # <<>>
        /\ token[1].kind = "Word"
        /\ [j \in 1..Len(token[1].value) |-> Lower(token[1].value[j])] = expected
  IN IF ~Matches(TokensPeek(r.tokens)) THEN ROk(h, r, <<>>)
     ELSE Expect(SynFromIdn("Word", "word", h, r))

ReaderTryReadWord(h, r, expected) ==
  LET Expect(x) ==
        IF x.tag = "Ok" THEN ROk(x.h, x.r, <<x.val>>) ELSE RPanic(x.h, x.r)
      Matches(token) ==
        token # <<>> /\ token[1].kind = "Word" /\ token[1].value = expected
  IN IF ~Matches(TokensPeek(r.tokens)) THEN ROk(h, r, <<>>)
     ELSE Expect(SynFromIdn("Word", "word", h, r))

\* A GroupReader: the delimiters and a reader of the contents.
GroupReaderNew(ctx, group) ==
  [open |-> group.open, contents |-> ReaderWithContext(ctx, group.contents),
   close |-> group.close]

ReaderReadGroup(h, r, open) ==
  LET Match(el) ==
        IF el.tag = "Panic" THEN el
        ELSE IF el.val = <<>>
          THEN RErr(el.h, el.r, el.r.tokens.span, <<"Expected {}...{}.", open, RevChar(open)>>)
        ELSE IF el.val[1].kind = "Group" /\ el.val[1].open.value = open
          THEN ROk(el.h, el.r, GroupReaderNew(el.r.ctx, el.val[1]))
        ELSE RErr(el.h, el.r, ElementSpan(el.val[1]),
                  <<"Expected {}...{}, found {}.", open, RevChar(open),
                    DescribeElement(el.val[1])>>)
  IN Match(ElementTryFromIdn(h, r))

ReaderTryReadGroup(h, r, start_delimiter) ==
  LET Expect(x) ==
        IF x.tag = "Ok" THEN ROk(x.h, x.r, <<GroupReaderNew(x.r.ctx, x.val)>>)
        ELSE RPanic(x.h, x.r)
      Matches(token) ==
        token # <<>> /\ token[1].kind = "Delimiter" /\ token[1].value = start_delimiter
  IN IF ~Matches(TokensPeek(r.tokens)) THEN ROk(h, r, <<>>)
     ELSE Expect(SynFromIdn("Group", "group", h, r))

\* The rest of Reader::next_line after an element was read: elements are read
\* until the next token starts on a later line than the last one read ends.
RECURSIVE NextLineRest(_, _, _, _)
NextLineRest(h, r, tokens, el) ==
  LET Read(x) ==
        IF x.tag # "Ok" THEN RPanic(x.h, x.r) ELSE NextLineRest(x.h, x.r, tokens, x.val)
      Line(reader) ==
        ROk(h, reader,
            <<ReaderWithContext(reader.ctx, TokensTruncateBefore(tokens, reader.tokens))>>)
  IN IF TokensIsEmpty(r.tokens) THEN Line(r)
     ELSE IF TokensPeek(r.tokens)[1].span.start.line > SpanLastLine(ElementSpan(el))
       THEN Line(r)
     ELSE Read(ElementFromIdn(h, r))

ReaderNextLine(h, r) ==
  LET First(x) ==
        IF x.tag # "Ok" THEN RPanic(x.h, x.r) ELSE NextLineRest(x.h, x.r, r.tokens, x.val)
  IN IF TokensIsEmpty(r.tokens) THEN ROk(h, r, <<>>) ELSE First(ElementFromIdn(h, r))

----------------------------------------------------------------------------
(* ListReader (syn/list.rs).  r is the reader the ListReader borrows.      *)

\* The loop of ListReader::next without the pop: the comma stays in the item.
RECURSIVE ListNextItemKeepComma(_, _, _)
ListNextItemKeepComma(h, r, tokens) ==
  LET Item(reader, window) == ROk(h, reader, <<ReaderWithContext(reader.ctx, window)>>)
      Element(el) ==
        IF el.tag = "Panic" THEN el
        ELSE IF el.val = <<>> THEN Item(el.r, tokens)
        ELSE IF el.val[1].kind = "Symbol" /\ el.val[1].value = ","
          THEN Item(el.r, TokensTruncateBefore(tokens, el.r.tokens))
        ELSE IF /\ TokensPeek(el.r.tokens) # <<>>
                /\ TokensPeek(el.r.tokens)[1].span.start.line
                     > SpanLastLine(ElementSpan(el.val[1]))
          THEN Item(el.r, TokensTruncateBefore(tokens, el.r.tokens))
        ELSE ListNextItemKeepComma(h, el.r, tokens)
  IN Element(ElementTryFromIdn(h, r))

\* The loop of ListReader::next without the line rule: only a comma ends an item.
RECURSIVE ListNextItemCommaOnly(_, _, _)
ListNextItemCommaOnly(h, r, tokens) ==
  LET Item(reader, window) == ROk(h, reader, <<ReaderWithContext(reader.ctx, window)>>)
      Element(el) ==
        IF el.tag = "Panic" THEN el
        ELSE IF el.val = <<>> THEN Item(el.r, tokens)
        ELSE IF el.val[1].kind = "Symbol" /\ el.val[1].value = ","
          THEN Item(el.r, TokensPop(TokensTruncateBefore(tokens, el.r.tokens)))
        ELSE ListNextItemCommaOnly(h, el.r, tokens)
  IN Element(ElementTryFromIdn(h, r))

\* The while-let loop of ListReader::next; tokens is the clone taken before it.
RECURSIVE ListNextItem(_, _, _)
ListNextItem(h, r, tokens) ==
  LET Item(reader, window) == ROk(h, reader, <<ReaderWithContext(reader.ctx, window)>>)
      Element(el) ==
        IF el.tag = "Panic" THEN el
        ELSE IF el.val = <<>> THEN Item(el.r, tokens)
        ELSE IF el.val[1].kind = "Symbol" /\ el.val[1].value = ","
          THEN Item(el.r, TokensPop(TokensTruncateBefore(tokens, el.r.tokens)))
        ELSE IF /\ TokensPeek(el.r.tokens) # <<>>
                /\ TokensPeek(el.r.tokens)[1].span.start.line
                     > SpanLastLine(ElementSpan(el.val[1]))
          THEN Item(el.r, TokensTruncateBefore(tokens, el.r.tokens))
        ELSE ListNextItem(h, el.r, tokens)
  IN Element(ElementTryFromIdn(h, r))

\* ListReader::next cutting the item from a copy of the reader: the reader
\* of the list is left where it was.
ListNextStuck(h, r) ==
  IF TokensIsEmpty(r.tokens) THEN ROk(h, r, <<>>)
  ELSE [ListNextItem(h, r, r.tokens) EXCEPT !.r = r]

ListNext(h, r) ==
  IF TokensIsEmpty(r.tokens) THEN ROk(h, r, <<>>) ELSE ListNextItem(h, r, r.tokens)

ListFinish(h, r) == ReaderFinish(h, r)

----------------------------------------------------------------------------
(* FromIdn (from_idn.rs, reader.rs, syn/tokens.rs, syn/declaration.rs).    *)
(* A type is a record: [k |-> "bool"], [k |-> "unit"], [k |-> "String"],   *)
(* [k |-> "Option", t |-> T], [k |-> "Vec", t |-> T], [k |-> "Tuple",      *)
(* ts |-> <<T1, ..., Tn>>], [k |-> "Element"], [k |-> "Tokens"],           *)
(* [k |-> "Reader"], [k |-> "Property"], [k |-> "Declaration"],            *)
(* [k |-> "uint", w |-> bits], [k |-> "int", w |-> bits],                  *)
(* [k |-> "HashMap", kt |-> K, vt |-> V].                                  *)

RECURSIVE FromIdn(_, _, _)
RECURSIVE ReaderReadToEnd(_, _, _)
RECURSIVE ListReadNext(_, _, _)
RECURSIVE OptionFromIdn(_, _, _)
RECURSIVE TupleItems(_, _, _, _)
RECURSIVE TupleFromIdn(_, _, _)
RECURSIVE VecItems(_, _, _, _)
RECURSIVE VecFromIdn(_, _, _)
RECURSIVE MapItemsKeepFirst(_, _, _, _, _)
RECURSIVE MapItems(_, _, _, _, _)
RECURSIVE MapFromIdn(_, _, _, _)
RECURSIVE ReaderFromIdn(_, _)
RECURSIVE PropertyFromIdn(_, _)
RECURSIVE DeclarationFromIdn(_, _)

UnitFromIdn(h, r) ==
  LET Finish(parent, fin) ==
        IF fin.tag = "Panic" THEN RPanic(fin.h, parent) ELSE ROk(fin.h, parent, "()")
      Group(g) ==
        IF g.tag # "Ok" THEN g ELSE Finish(g.r, ReaderFinish(g.h, g.val.contents))
  IN Group(ReaderReadGroup(h, r, "("))

\* FromIdn for Arc<str>; the value is the characters of the string.
ArcStrFromIdn(h, r) ==
  LET Match(el) ==
        IF el.tag = "Panic" THEN el
        ELSE IF el.val = <<>>
          THEN RErr(el.h, el.r, el.r.tokens.span, <<"Expected string or word.">>)
        ELSE IF el.val[1].kind \in {"StringLiteral", "Word"}
          THEN ROk(el.h, el.r, el.val[1].value)
        ELSE RErr(el.h, el.r, ElementSpan(el.val[1]),
                  <<"Expected string or word, found {}.", DescribeElement(el.val[1])>>)
  IN Match(ElementTryFromIdn(h, r))

StringFromIdn(h, r) == ArcStrFromIdn(h, r)

BoolFromIdn(h, r) ==
  LET Match(el) ==
        IF el.tag = "Panic" THEN el
        ELSE IF el.val = <<>>
          THEN RErr(el.h, el.r, el.r.tokens.span, <<"Expected true or false.">>)
        ELSE IF el.val[1].kind = "Word" /\ el.val[1].value = <<"t", "r", "u", "e">>
          THEN ROk(el.h, el.r, TRUE)
        ELSE IF el.val[1].kind = "Word" /\ el.val[1].value = <<"f", "a", "l", "s", "e">>
          THEN ROk(el.h, el.r, FALSE)
        ELSE RErr(el.h, el.r, ElementSpan(el.val[1]),
                  <<"Expected true or false, found {}.", DescribeElement(el.val[1])>>)
  IN Match(ElementTryFromIdn(h, r))

\* FromIdn for syn::Integer: a Number is read and converted with try_into.
IntegerFromIdn(h, r) ==
  LET TryInto(x) ==
        IF x.tag # "Ok" THEN x
        ELSE IF x.val.kind = "Float"
          THEN RErr(x.h, x.r, x.val.span, <<"Expected integer, found floating-point number.">>)
        ELSE x
  IN TryInto(SynFromIdn("Number", "number", h, r))

\* $ty::MAX and $ty::MIN of the integer type of w bits.
TyMax(signed, w) == IF signed THEN (2 ^ (w - 1)) - 1 ELSE (2 ^ w) - 1
TyMin(signed, w) == IF signed THEN 0 - (2 ^ (w - 1)) ELSE 0

\* v as $ty: the value modulo 2^w, in the range of the type.
AsTy(signed, w, v) ==
  IF signed /\ (v % (2 ^ w)) > TyMax(TRUE, w) THEN (v % (2 ^ w)) - (2 ^ w) ELSE v % (2 ^ w)

\* span += p.span() when there is a prefix.
SpanWithPrefix(span, prefix) ==
  IF prefix = <<>> THEN span ELSE SpanAdd(span, prefix[1].span)

\* impl_for_uint! accepting a - before the integer.
UintFromIdnAnySign(w, h, r) ==
  LET Value(prefix, x) ==
        IF x.tag # "Ok" THEN x
        ELSE IF x.val.value > TyMax(FALSE, w)
          THEN RErr(x.h, x.r, SpanWithPrefix(x.val.span, prefix),
                    <<"Expected integer less than or equal to {}.", TyMax(FALSE, w)>>)
        ELSE ROk(x.h, x.r, AsTy(FALSE, w, x.val.value))
      Prefix(p) == IF p.tag = "Panic" THEN p ELSE Value(p.val, IntegerFromIdn(p.h, p.r))
  IN Prefix(ReaderTryReadSymbol(h, r, {"+", "-"}))

\* impl_for_uint!($ty) for the type of w bits.
UintFromIdn(w, h, r) ==
  LET Value(prefix, x) ==
        IF x.tag # "Ok" THEN x
        ELSE IF prefix # <<>> /\ prefix[1].value = "-"
          THEN RErr(x.h, x.r, prefix[1].span, <<"Expected non-negative integer.">>)
        ELSE IF x.val.value > TyMax(FALSE, w)
          THEN RErr(x.h, x.r, SpanWithPrefix(x.val.span, prefix),
                    <<"Expected integer less than or equal to {}.", TyMax(FALSE, w)>>)
        ELSE ROk(x.h, x.r, AsTy(FALSE, w, x.val.value))
      Prefix(p) == IF p.tag = "Panic" THEN p ELSE Value(p.val, IntegerFromIdn(p.h, p.r))
  IN Prefix(ReaderTryReadSymbol(h, r, {"+", "-"}))

\* impl_for_int! with the magnitude of a negative number checked against MAX.
IntFromIdnSymmetric(w, h, r) ==
  LET Value(prefix, x) ==
        IF x.tag # "Ok" THEN x
        ELSE IF ~(prefix # <<>> /\ prefix[1].value = "-") /\ x.val.value > TyMax(TRUE, w)
          THEN RErr(x.h, x.r, SpanWithPrefix(x.val.span, prefix),
                    <<"Expected integer less than or equal to {}.", TyMax(TRUE, w)>>)
        ELSE IF ~(prefix # <<>> /\ prefix[1].value = "-")
          THEN ROk(x.h, x.r, AsTy(TRUE, w, x.val.value))
        ELSE IF x.val.value > TyMax(TRUE, w)
          THEN RErr(x.h, x.r, SpanWithPrefix(x.val.span, prefix),
                    <<"Expected integer greater than or equal to {}.", TyMin(TRUE, w)>>)
        ELSE ROk(x.h, x.r, AsTy(TRUE, w, 0 - AsTy(TRUE, w, x.val.value)))
      Prefix(p) == IF p.tag = "Panic" THEN p ELSE Value(p.val, IntegerFromIdn(p.h, p.r))
  IN Prefix(ReaderTryReadSymbol(h, r, {"+", "-"}))

\* impl_for_int!($ty) for the type of w bits.
IntFromIdn(w, h, r) ==
  LET Value(prefix, x) ==
        IF x.tag # "Ok" THEN x
        ELSE IF ~(prefix # <<>> /\ prefix[1].value = "-") /\ x.val.value > TyMax(TRUE, w)
          THEN RErr(x.h, x.r, SpanWithPrefix(x.val.span, prefix),
                    <<"Expected integer less than or equal to {}.", TyMax(TRUE, w)>>)
        ELSE IF ~(prefix # <<>> /\ prefix[1].value = "-")
          THEN ROk(x.h, x.r, AsTy(TRUE, w, x.val.value))
        ELSE IF x.val.value > TyMax(TRUE, w) + 1
          THEN RErr(x.h, x.r, SpanWithPrefix(x.val.span, prefix),
                    <<"Expected integer greater than or equal to {}.", TyMin(TRUE, w)>>)
        ELSE IF x.val.value > TyMax(TRUE, w) THEN ROk(x.h, x.r, TyMin(TRUE, w))
        ELSE ROk(x.h, x.r, AsTy(TRUE, w, 0 - AsTy(TRUE, w, x.val.value)))
      Prefix(p) == IF p.tag = "Panic" THEN p ELSE Value(p.val, IntegerFromIdn(p.h, p.r))
  IN Prefix(ReaderTryReadSymbol(h, r, {"+", "-"}))

\* FromIdn for Tokens: the remaining window, and every element of it skipped.
RECURSIVE SkipAll(_, _)
SkipAll(h, r) ==
  LET Skipped(x) ==
        IF x.tag = "Panic" THEN x
        ELSE IF x.val THEN SkipAll(x.h, x.r)
        ELSE x
  IN Skipped(ReaderSkip(h, r))

TokensFromIdn(h, r) ==
  LET Skipped(x) == IF x.tag = "Panic" THEN x ELSE ROk(x.h, x.r, r.tokens)
  IN Skipped(SkipAll(h, r))

\* Reader::read_to_end
ReaderReadToEnd(T, h, r) ==
  LET Finish(res, fin) ==
        [res EXCEPT !.h = fin.h, !.r = fin.r,
                    !.tag = IF fin.tag = "Panic" THEN "Panic" ELSE @]
      Decoded(res) ==
        IF res.tag = "Panic" THEN res
        ELSE IF Len(ReaderErrors(res.h, res.r)) = Len(ReaderErrors(h, r))
          THEN Finish(res, ReaderFinish(res.h, res.r))
        ELSE res
  IN Decoded(FromIdn(T, h, r))

\* ListReader::read_next
ListReadNext(T, h, r) ==
  LET Decode(list, x) ==
        IF x.tag = "Ok" THEN ROk(x.h, list, <<x.val>>) ELSE [x EXCEPT !.r = list]
      Next(n) ==
        IF n.tag = "Panic" THEN n
        ELSE IF n.val = <<>> THEN ROk(n.h, n.r, <<>>)
        ELSE Decode(n.r, ReaderReadToEnd(T, n.h, n.val[1]))
  IN Next(ListNext(h, r))

OptionFromIdn(T, h, r) ==
  LET Some(x) == IF x.tag = "Ok" THEN ROk(x.h, x.r, <<x.val>>) ELSE x
      None(w) ==
        IF w.tag = "Panic" THEN w
        ELSE IF w.val # <<>> THEN ROk(w.h, w.r, <<>>)
        ELSE Some(FromIdn(T, w.h, w.r))
  IN None(ReaderTryReadWord(h, r, <<"n", "o", "n", "e">>))

\* The repetition of impl_for_tuple!: one read_next for each position.
TupleItems(ts, h, list, items) ==
  LET Item(x) ==
        IF x.tag # "Ok" THEN x
        ELSE IF x.val = <<>>
          THEN RErr(x.h, x.r, x.r.tokens.span, <<"Expected an element.">>)
        ELSE TupleItems(Tail(ts), x.h, x.r, Append(items, x.val[1]))
  IN IF ts = <<>> THEN ROk(h, list, items) ELSE Item(ListReadNext(Head(ts), h, list))

\* impl_for_tuple! without list.finish(): what follows the last position is
\* left unread and unreported.
TupleFromIdnNoFinish(ts, h, r) ==
  LET Finish(parent, x) ==
        IF x.tag # "Ok" THEN [x EXCEPT !.r = parent] ELSE ROk(x.h, parent, x.val)
      Group(el) ==
        IF el.tag = "Panic" THEN el
        ELSE IF el.val = <<>>
          THEN RErr(el.h, el.r, el.r.tokens.span, <<"Expected tuple.">>)
        ELSE IF el.val[1].kind = "Group" /\ el.val[1].open.value = "("
          THEN Finish(el.r, TupleItems(ts, el.h,
                                       ReaderWithContext(el.r.ctx, el.val[1].contents), <<>>))
        ELSE RErr(el.h, el.r, ElementSpan(el.val[1]),
                  <<"Expected tuple, found {}.", DescribeElement(el.val[1])>>)
  IN Group(ElementTryFromIdn(h, r))

TupleFromIdn(ts, h, r) ==
  LET Done(parent, items, fin) ==
        IF fin.tag = "Panic" THEN RPanic(fin.h, parent) ELSE ROk(fin.h, parent, items)
      Finish(parent, x) ==
        IF x.tag # "Ok" THEN [x EXCEPT !.r = parent]
        ELSE Done(parent, x.val, ListFinish(x.h, x.r))
      Group(el) ==
        IF el.tag = "Panic" THEN el
        ELSE IF el.val = <<>>
          THEN RErr(el.h, el.r, el.r.tokens.span, <<"Expected tuple.">>)
        ELSE IF el.val[1].kind = "Group" /\ el.val[1].open.value = "("
          THEN Finish(el.r, TupleItems(ts, el.h,
                                       ReaderWithContext(el.r.ctx, el.val[1].contents), <<>>))
        ELSE RErr(el.h, el.r, ElementSpan(el.val[1]),
                  <<"Expected tuple, found {}.", DescribeElement(el.val[1])>>)
  IN Group(ElementTryFromIdn(h, r))

\* The while-let loop of FromIdn for Vec<T>.
VecItems(T, h, list, items) ==
  LET Item(x) ==
        IF x.tag # "Ok" THEN x
        ELSE IF x.val = <<>> THEN ROk(x.h, x.r, items)
        ELSE VecItems(T, x.h, x.r, Append(items, x.val[1]))
  IN Item(ListReadNext(T, h, list))

VecFromIdn(T, h, r) ==
  LET Items(parent, x) == [x EXCEPT !.r = parent]
      Group(g) ==
        IF g.tag # "Ok" THEN g ELSE Items(g.r, VecItems(T, g.h, g.val.contents, <<>>))
  IN Group(ReaderReadGroup(h, r, "["))

\* The while-let loop of FromIdn for HashMap<K, V> with a key that is already
\* in the map keeping its value.
MapItemsKeepFirst(K, V, h, list, map) ==
  LET Value(key, v) ==
        IF v.tag # "Ok" THEN v
        ELSE [v EXCEPT !.val = map @@ (key :> v.val)]
      Eq(key, eq) ==
        IF eq.tag # "Ok" THEN eq ELSE Value(key, ReaderReadToEnd(V, eq.h, eq.r))
      Key(key) ==
        IF key.tag # "Ok" THEN key ELSE Eq(key.val, ReaderReadSymbol(key.h, key.r, {"="}))
      Inserted(rest, x) ==
        IF x.tag # "Ok" THEN [x EXCEPT !.r = rest]
        ELSE MapItemsKeepFirst(K, V, x.h, rest, x.val)
      Next(n) ==
        IF n.tag = "Panic" THEN n
        ELSE IF n.val = <<>> THEN ROk(n.h, n.r, map)
        ELSE Inserted(n.r, Key(FromIdn(K, n.h, n.val[1])))
  IN Next(ListNext(h, list))

\* The while-let loop of FromIdn for HashMap<K, V>.  A map is a function on
\* its keys; the empty map is <<>>.
MapItems(K, V, h, list, map) ==
  LET Value(key, v) ==
        IF v.tag # "Ok" THEN v
        ELSE [v EXCEPT !.val = (key :> v.val) @@ map]
      Eq(key, eq) ==
        IF eq.tag # "Ok" THEN eq ELSE Value(key, ReaderReadToEnd(V, eq.h, eq.r))
      Key(key) ==
        IF key.tag # "Ok" THEN key ELSE Eq(key.val, ReaderReadSymbol(key.h, key.r, {"="}))
      Inserted(rest, x) ==
        IF x.tag # "Ok" THEN [x EXCEPT !.r = rest]
        ELSE MapItems(K, V, x.h, rest, x.val)
      Next(n) ==
        IF n.tag = "Panic" THEN n
        ELSE IF n.val = <<>> THEN ROk(n.h, n.r, map)
        ELSE Inserted(n.r, Key(FromIdn(K, n.h, n.val[1])))
  IN Next(ListNext(h, list))

MapFromIdn(K, V, h, r) ==
  LET Items(parent, x) == [x EXCEPT !.r = parent]
      Group(g) ==
        IF g.tag # "Ok" THEN g ELSE Items(g.r, MapItems(K, V, g.h, g.val.contents, <<>>))
  IN Group(ReaderReadGroup(h, r, "{"))

ReaderFromIdn(h, r) ==
  LET Tokens(x) ==
        IF x.tag # "Ok" THEN x ELSE ROk(x.h, x.r, ReaderWithContext(x.r.ctx, x.val))
  IN Tokens(ReaderReadToEnd([k |-> "Tokens"], h, r))

\* Property::from_idn without key_tokens.truncate_before(reader.tokens()).
PropertyFromIdnWholeKey(h, r) ==
  LET Value(key, eq, v) ==
        IF v.tag # "Ok" THEN v
        ELSE ROk(v.h, v.r, [key |-> key, eq |-> eq, value |-> v.val])
      Eq(key, eq) ==
        IF eq.tag # "Ok" THEN eq
        ELSE Value(key, eq.val, ReaderReadToEnd([k |-> "Reader"], eq.h, eq.r))
      Key(el) ==
        IF el.tag = "Panic" THEN el
        ELSE IF el.val = <<>>
          THEN RErr(el.h, el.r, el.r.tokens.span, <<"Expected property.">>)
        ELSE Eq(ReaderWithContext(el.r.ctx, r.tokens), ReaderReadSymbol(el.h, el.r, {"="}))
  IN Key(ElementTryFromIdn(h, r))

PropertyFromIdn(h, r) ==
  LET Value(key, eq, v) ==
        IF v.tag # "Ok" THEN v
        ELSE ROk(v.h, v.r, [key |-> key, eq |-> eq, value |-> v.val])
      Eq(key, eq) ==
        IF eq.tag # "Ok" THEN eq
        ELSE Value(key, eq.val, ReaderReadToEnd([k |-> "Reader"], eq.h, eq.r))
      Key(el) ==
        IF el.tag = "Panic" THEN el
        ELSE IF el.val = <<>>
          THEN RErr(el.h, el.r, el.r.tokens.span, <<"Expected property.">>)
        ELSE Eq(ReaderWithContext(el.r.ctx, TokensTruncateBefore(r.tokens, el.r.tokens)),
                ReaderReadSymbol(el.h, el.r, {"="}))
  IN Key(ElementTryFromIdn(h, r))

\* The lookahead of Declaration taking any Number, Float included, for a key.
DeclarationFromIdnAnyNumber(h, r) ==
  LET Wrap(kind, x) ==
        IF x.tag # "Ok" THEN x ELSE ROk(x.h, x.r, [kind |-> kind, decl |-> x.val])
      Read(is_property) ==
        IF is_property THEN Wrap("Property", ReaderReadToEnd([k |-> "Property"], h, r))
        ELSE Wrap("Item", ReaderReadToEnd([k |-> "Reader"], h, r))
      Second(n) ==
        n.token # <<>> /\ n.token[1].kind = "Symbol" /\ n.token[1].value = "="
      First(n) ==
        /\ n.token[1].kind \in {"Integer", "Float", "StringLiteral", "Word"}
        /\ Second(TokensNext(n.tokens))
  IN IF TokensIsEmpty(r.tokens)
       THEN RErr(h, r, r.tokens.span, <<"Expected declaration.">>)
       ELSE Read(First(TokensNext(r.tokens)))

DeclarationFromIdn(h, r) ==
  LET Wrap(kind, x) ==
        IF x.tag # "Ok" THEN x ELSE ROk(x.h, x.r, [kind |-> kind, decl |-> x.val])
      Read(is_property) ==
        IF is_property THEN Wrap("Property", ReaderReadToEnd([k |-> "Property"], h, r))
        ELSE Wrap("Item", ReaderReadToEnd([k |-> "Reader"], h, r))
      Second(n) ==
        n.token # <<>> /\ n.token[1].kind = "Symbol" /\ n.token[1].value = "="
      First(n) ==
        /\ n.token[1].kind \in {"Integer", "StringLiteral", "Word"}
        /\ Second(TokensNext(n.tokens))
  IN IF TokensIsEmpty(r.tokens)
       THEN RErr(h, r, r.tokens.span, <<"Expected declaration.">>)
       ELSE Read(First(TokensNext(r.tokens)))

FromIdn(T, h, r) ==
  CASE T.k = "bool" -> BoolFromIdn(h, r)
    [] T.k = "unit" -> UnitFromIdn(h, r)
    [] T.k = "String" -> StringFromIdn(h, r)
    [] T.k = "uint" -> UintFromIdn(T.w, h, r)
    [] T.k = "int" -> IntFromIdn(T.w, h, r)
    [] T.k = "Option" -> OptionFromIdn(T.t, h, r)
    [] T.k = "Vec" -> VecFromIdn(T.t, h, r)
    [] T.k = "Tuple" -> TupleFromIdn(T.ts, h, r)
    [] T.k = "HashMap" -> MapFromIdn(T.kt, T.vt, h, r)
    [] T.k = "Element" -> ElementFromIdn(h, r)
    [] T.k = "Tokens" -> TokensFromIdn(h, r)
    [] T.k = "Reader" -> ReaderFromIdn(h, r)
    [] T.k = "Property" -> PropertyFromIdn(h, r)
    [] T.k = "Declaration" -> DeclarationFromIdn(h, r)

----------------------------------------------------------------------------
(* The decode procedure the derive generator emits for a struct with named *)
(* fields in block style (proc-macros/src/from_idn/gen.rs).  A struct spec *)
(* is [desc, fields]; a field is [name, kind, default, ty] with kind one   *)
(* of "Prefix", "Property", "Item", "ItemList", "ItemAll" and default an   *)
(* Option.  The description of a field is its name, which the generator    *)
(* writes between grave accents.  No field has a `from` type.  fields holds*)
(* the variable of each field, by its position: an Option for a prefix, a  *)
(* property or an item field, a Vec for the fields that occur many times.  *)
(* The decoded struct is the sequence of the values of its fields.         *)

\* Reader::peek_str
PeekStr(r) ==
  LET Str(t) ==
        IF t # <<>> /\ t[1].kind \in {"StringLiteral", "Word"}
          THEN [span |-> t[1].span, value |-> <<t[1].value>>]
          ELSE [span |-> SpanOfPos(r.tokens.span.start), value |-> <<>>]
  IN Str(TokensPeek(r.tokens))

\* What a step of the generated code leaves: the heap, Ok, Err or Panic, the
\* fatal error and the variables.
Scan(h, tag, err, fields) == [h |-> h, tag |-> tag, err |-> err, fields |-> fields]

\* The result x of a reader operation as the outcome of a step.
ScanOf(x, fields) == Scan(x.h, x.tag, x.err, fields)

\* The position of the match arm of the key: the first Item, ItemList or
\* Property field of that name, 0 when there is none.
ArmOf(S, key) ==
  LET First(Arms) == IF Arms = {} THEN 0 ELSE CHOOSE p \in Arms : \A q \in Arms : p <= q
  IN First({p \in 1..Len(S.fields) :
              /\ S.fields[p].kind \in {"Item", "ItemList", "Property"}
              /\ key = <<S.fields[p].name>>})

\* The position of the first `items *` field, 0 when there is none.
ItemAllOf(S) ==
  LET First(All) == IF All = {} THEN 0 ELSE CHOOSE p \in All : \A q \in All : p <= q
  IN First({p \in 1..Len(S.fields) : S.fields[p].kind = "ItemAll"})

\* variable = Some(read?), x the Result of read_to_end.
SetRead(fields, p, x) ==
  IF x.tag # "Ok" THEN ScanOf(x, fields)
  ELSE Scan(x.h, "Ok", <<>>, [fields EXCEPT ![p] = <<x.val>>])

\* match variable.is_none() with a value read again for a field already set.
SetOnceOverwriting(S, p, message, key, fields, h, r) ==
  SetRead(fields, p, ReaderReadToEnd(S.fields[p].ty, h, r))

\* match variable.is_none() { true => variable = Some(read?), false =>
\* reader.add_error(Duplicate ...) }
SetOnce(S, p, message, key, fields, h, r) ==
  IF fields[p] = <<>> THEN SetRead(fields, p, ReaderReadToEnd(S.fields[p].ty, h, r))
  ELSE Scan(ReaderAddError(h, r, ErrorNew(key.span, <<message, S.fields[p].name, S.desc>>)),
            "Ok", <<>>, fields)

\* The arm of an Item field, sk the result of reader.skip().
ItemSkipped(S, p, key, fields, sk) ==
  IF sk.tag # "Ok" THEN ScanOf(sk, fields)
  ELSE SetOnce(S, p, "Duplicate {} item in {}.", key, fields, sk.h, sk.r)

ItemArm(S, p, key, fields, h, r) == ItemSkipped(S, p, key, fields, ReaderSkip(h, r))

\* variable.push(read?): the error of the read ends the scan.
ItemListReadFatal(fields, p, x) ==
  IF x.tag # "Ok" THEN ScanOf(x, fields)
  ELSE Scan(x.h, "Ok", <<>>, [fields EXCEPT ![p] = Append(@, x.val)])

\* match read { Ok(x) => variable.push(x), Err(err) => reader.add_error(err) }
ItemListRead(fields, p, x) ==
  IF x.tag = "Panic" THEN ScanOf(x, fields)
  ELSE IF x.tag = "Ok" THEN Scan(x.h, "Ok", <<>>, [fields EXCEPT ![p] = Append(@, x.val)])
  ELSE Scan(ReaderAddError(x.h, x.r, x.err[1]), "Ok", <<>>, fields)

\* The arm of an ItemList field, sk the result of reader.skip().
ItemListSkipped(S, p, fields, sk) ==
  IF sk.tag # "Ok" THEN ScanOf(sk, fields)
  ELSE ItemListRead(fields, p, ReaderReadToEnd(S.fields[p].ty, sk.h, sk.r))

ItemListArm(S, p, key, fields, h, r) == ItemListSkipped(S, p, fields, ReaderSkip(h, r))

\* The arm of a Property field, eq the result of reader.read_symbol("=")?.
PropertyEq(S, p, key, fields, eq) ==
  IF eq.tag # "Ok" THEN ScanOf(eq, fields)
  ELSE SetOnce(S, p, "Duplicate {} property in {}.", key, fields, eq.h, eq.r)

PropertySkipped(S, p, key, fields, sk) ==
  IF sk.tag # "Ok" THEN ScanOf(sk, fields)
  ELSE PropertyEq(S, p, key, fields, ReaderReadSymbol(sk.h, sk.r, {"="}))

PropertyArm(S, p, key, fields, h, r) == PropertySkipped(S, p, key, fields, ReaderSkip(h, r))

\* variable.push(reader.read_to_end()?)
ItemAllRead(fields, p, x) ==
  IF x.tag # "Ok" THEN ScanOf(x, fields)
  ELSE Scan(x.h, "Ok", <<>>, [fields EXCEPT ![p] = Append(@, x.val)])

\* The default arm of a struct with an `items *` field at position p.
ItemAllArm(S, p, fields, h, r) ==
  ItemAllRead(fields, p, ReaderReadToEnd(S.fields[p].ty, h, r))

\* The arm Some(other) reporting every unknown key as an item.
UnknownArmAlwaysItem(S, key, fields, h, r) ==
  LET Kind(eq) ==
        IF eq.tag # "Ok" THEN ScanOf(eq, fields)
        ELSE Scan(ReaderAddError(eq.h, eq.r,
                                 ErrorNew(key.span, <<"Unknown {} {} in {}.", "item",
                                                      key.value[1], S.desc>>)),
                  "Ok", <<>>, fields)
      Skipped(sk) ==
        IF sk.tag # "Ok" THEN ScanOf(sk, fields)
        ELSE Kind(ReaderTryReadSymbol(sk.h, sk.r, {"="}))
  IN Skipped(ReaderSkip(h, r))

\* let kind = match reader.try_read_symbol("=") { ... }; reader.add_error(...)
\* with eq the result of try_read_symbol.  The key is written as it is:
\* escape_debug changes no letter.
UnknownKind(S, key, fields, eq) ==
  IF eq.tag # "Ok" THEN ScanOf(eq, fields)
  ELSE Scan(ReaderAddError(eq.h, eq.r,
                           ErrorNew(key.span,
                                    <<"Unknown {} {} in {}.",
                                      IF eq.val # <<>> THEN "property" ELSE "item",
                                      key.value[1], S.desc>>)),
            "Ok", <<>>, fields)

UnknownSkipped(S, key, fields, sk) ==
  IF sk.tag # "Ok" THEN ScanOf(sk, fields)
  ELSE UnknownKind(S, key, fields, ReaderTryReadSymbol(sk.h, sk.r, {"="}))

\* The arm Some(other) of a struct without an `items *` field.
UnknownArm(S, key, fields, h, r) == UnknownSkipped(S, key, fields, ReaderSkip(h, r))

\* The arm Some(name) of the field at position p.
NamedArm(S, p, key, fields, h, r) ==
  CASE S.fields[p].kind = "Item" -> ItemArm(S, p, key, fields, h, r)
    [] S.fields[p].kind = "ItemList" -> ItemListArm(S, p, key, fields, h, r)
    [] S.fields[p].kind = "Property" -> PropertyArm(S, p, key, fields, h, r)

\* The arms in their order: that of the field p the key names, the default
\* arm of the `items *` field all, Some(other), and _ => reader.finish().
ArmAt(S, p, all, key, fields, h, r) ==
  IF p # 0 THEN NamedArm(S, p, key, fields, h, r)
  ELSE IF all # 0 THEN ItemAllArm(S, all, fields, h, r)
  ELSE IF key.value # <<>> THEN UnknownArm(S, key, fields, h, r)
  ELSE ScanOf(ReaderFinish(h, r), fields)

\* match key.as_str() { ... } on the reader r of one item of the block.
BlockArm(S, key, fields, h, r) ==
  ArmAt(S, ArmOf(S, key.value), ItemAllOf(S), key, fields, h, r)

RECURSIVE BlockItems(_, _, _, _)

\* The items after one whose arm left x.
BlockRest(S, rest, x) ==
  IF x.tag # "Ok" THEN x ELSE BlockItems(S, x.h, rest, x.fields)

\* The body of the loop, n the result of list.next().
BlockNext(S, fields, n) ==
  IF n.tag = "Panic" THEN ScanOf(n, fields)
  ELSE IF n.val = <<>> THEN Scan(n.h, "Ok", <<>>, fields)
  ELSE BlockRest(S, n.r, BlockArm(S, PeekStr(n.val[1]), fields, n.h, n.val[1]))

\* while let Some(mut reader) = list.next() { ... }
BlockItems(S, h, list, fields) == BlockNext(S, fields, ListNext(h, list))

\* The descriptions pushed to missing, for the fields from position p on.
RECURSIVE MissingFields(_, _, _)
MissingFields(S, fields, p) ==
  IF p > Len(S.fields) THEN <<>>
  ELSE IF /\ S.fields[p].default = <<>>
          /\ S.fields[p].kind \in {"Property", "Item"}
          /\ fields[p] = <<>>
    THEN <<S.fields[p].name>> \o MissingFields(S, fields, p + 1)
  ELSE MissingFields(S, fields, p + 1)

\* missing.join(", ")
RECURSIVE JoinComma(_)
JoinComma(names) ==
  IF Len(names) = 1 THEN names[1] ELSE names[1] \o <<",", " ">> \o JoinComma(Tail(names))

\* match missing.len() { ... } after the scan left x in the group g.
MissingAbort(S, g, x, missing) ==
  IF Len(missing) = 0 THEN ROk(x.h, g.r, x.fields)
  ELSE IF Len(missing) = 1
    THEN RErr(x.h, g.r, g.val.close.span, <<"Missing {} in {}.", missing[1], S.desc>>)
  ELSE RErr(x.h, g.r, g.val.close.span, <<"Missing in {}: {}.", S.desc, JoinComma(missing)>>)

MissingCheck(S, g, x) ==
  IF x.tag # "Ok" THEN [h |-> x.h, r |-> g.r, tag |-> x.tag, val |-> <<>>, err |-> x.err]
  ELSE MissingAbort(S, g, x, MissingFields(S, x.fields, 1))

\* The scan and the check, g the result of reader.read_group('{')?.
BlockGroup(S, fields, g) ==
  IF g.tag # "Ok" THEN g ELSE MissingCheck(S, g, BlockItems(S, g.h, g.val.contents, fields))

\* read_fields_from_block: the group, the scan of its items and the check for
\* missing fields.  The result is that of a reader operation with the
\* variables as its value.
ReadFieldsFromBlock(S, h, r, fields) == BlockGroup(S, fields, ReaderReadGroup(h, r, "{"))

RECURSIVE ReadPrefix(_, _, _, _, _)

\* The prefix fields after the one at position p, x the result of its read.
PrefixRead(S, fields, p, x) ==
  IF x.tag # "Ok" THEN x
  ELSE ReadPrefix(S, x.h, x.r, [fields EXCEPT ![p] = <<x.val>>], p + 1)

\* let variable: ty = reader.read()?; for the prefix fields from position p on.
ReadPrefix(S, h, r, fields, p) ==
  IF p > Len(S.fields) THEN ROk(h, r, fields)
  ELSE IF S.fields[p].kind = "Prefix"
    THEN PrefixRead(S, fields, p, FromIdn(S.fields[p].ty, h, r))
  ELSE ReadPrefix(S, h, r, fields, p + 1)

HasPrefix(S) == \E p \in 1..Len(S.fields) : S.fields[p].kind = "Prefix"

\* variable.unwrap() panics on None for a field without a default.
UnwrapPanics(S, fields) ==
  \E p \in 1..Len(S.fields) :
    /\ S.fields[p].kind \in {"Property", "Item"}
    /\ S.fields[p].default = <<>>
    /\ fields[p] = <<>>

\* The values of the fields: unwrap or unwrap_or_else for a property or an item
\* field, the variable itself for the others.
Unwrapped(S, fields) ==
  [p \in 1..Len(S.fields) |->
     IF S.fields[p].kind \in {"ItemList", "ItemAll"} THEN fields[p]
     ELSE IF fields[p] # <<>> THEN fields[p][1]
     ELSE S.fields[p].default[1]]

\* Ok(Self { ... }) after reader.finish(), fin the result of finish.
Finished(v, fin) == IF fin.tag = "Panic" THEN fin ELSE ROk(fin.h, fin.r, v)

\* The unwrap of the variables x.val and what follows it.
Unwrap(S, x) ==
  IF x.tag # "Ok" THEN x
  ELSE IF UnwrapPanics(S, x.val) THEN RPanic(x.h, x.r)
  ELSE Finished(Unwrapped(S, x.val), ReaderFinish(x.h, x.r))

\* if !reader.is_empty() { read_fields_from_block } for a struct with a prefix
\* field, read_fields_from_block for one without; x the result of the reads
\* of the prefix fields.
RecordBlock(S, x) ==
  IF x.tag # "Ok" THEN x
  ELSE IF HasPrefix(S) /\ TokensIsEmpty(x.r.tokens) THEN Unwrap(S, x)
  ELSE Unwrap(S, ReadFieldsFromBlock(S, x.h, x.r, x.val))

\* impl_for_normal_struct with read_fields for the block style.
RecordFromIdn(S, h, r) ==
  RecordBlock(S, ReadPrefix(S, h, r, [p \in 1..Len(S.fields) |-> <<>>], 1))

----------------------------------------------------------------------------
(* The code the derive generator emits for a struct in tuple style without *)
(* prefix fields.  read_fields declares every property or item variable as *)
(* an Option, read_fields_from_tuple binds the variable again, with        *)
(* let variable = match list.read_next()? { Some(x) => x, ... }, to the    *)
(* value itself, and read_fields then emits variable.unwrap() or           *)
(* variable.unwrap_or_else(...) for every field that is not a prefix and   *)
(* does not occur many times, whatever the style.  The receiver of that    *)
(* call is the value of the field, of a type still to be inferred, and not *)
(* an Option: the compiler rejects the impl, and the struct has no decode. *)
(* Only a struct whose fields are all `items` or `items *` has no such     *)
(* call; for it the variables hold the values themselves.                  *)

\* The fields for which gen.rs 136-150 emit an unwrap of the variable.
UnwrapsValue(S) ==
  \E p \in 1..Len(S.fields) : S.fields[p].kind \in {"Property", "Item"}

\* The outcome of a call of a decode that was never built.
RRejected(h, r) == [h |-> h, r |-> r, tag |-> "Rejected", val |-> <<>>, err |-> <<>>]

\* required_count
RequiredCount(S) ==
  Cardinality({p \in 1..Len(S.fields) :
                 S.fields[p].kind # "Prefix" /\ S.fields[p].default = <<>>})

\* expected_field: format!("Expected {}{} element{} in {}.", ...)
ExpectedField(S) ==
  <<"Expected {}{} element{} in {}.",
    IF RequiredCount(S) < Len(S.fields) THEN "at least " ELSE "",
    RequiredCount(S),
    IF RequiredCount(S) = 1 THEN "" ELSE "s",
    S.desc>>

RECURSIVE TupleFields(_, _, _, _, _)

\* let variable = match list.read_next()? { Some(x) => x, None => default },
\* or None => idn::abort!(list.span(), expected_field), for the field at
\* position p, x the result of read_next; then the fields after it.
TupleField(S, p, fields, x) ==
  IF x.tag # "Ok" THEN x
  ELSE IF x.val # <<>>
    THEN TupleFields(S, x.h, x.r, [fields EXCEPT ![p] = x.val[1]], p + 1)
  ELSE IF S.fields[p].default # <<>>
    THEN TupleFields(S, x.h, x.r, [fields EXCEPT ![p] = S.fields[p].default[1]], p + 1)
  ELSE RErr(x.h, x.r, x.r.tokens.span, ExpectedField(S))

TupleFields(S, h, list, fields, p) ==
  IF p > Len(S.fields) THEN ROk(h, list, fields)
  ELSE TupleField(S, p, fields, ListReadNext(S.fields[p].ty, h, list))

\* list.finish() left fin.
TupleFinished(g, fields, fin) ==
  IF fin.tag = "Panic" THEN RPanic(fin.h, g.r) ELSE ROk(fin.h, g.r, fields)

TupleRead(g, x) ==
  IF x.tag # "Ok" THEN [x EXCEPT !.r = g.r]
  ELSE TupleFinished(g, x.val, ListFinish(x.h, x.r))

\* The fields of the list, g the result of reader.read_group('(')?.
TupleGroup(S, fields, g) ==
  IF g.tag # "Ok" THEN g
  ELSE TupleRead(g, TupleFields(S, g.h, g.val.contents, fields, 1))

\* read_fields_from_tuple
ReadFieldsFromTuple(S, h, r, fields) == TupleGroup(S, fields, ReaderReadGroup(h, r, "("))

\* reader.finish(); Ok(Self(...)) after the fields x.
TupleStruct(x) ==
  IF x.tag # "Ok" THEN x ELSE Finished(x.val, ReaderFinish(x.h, x.r))

\* impl_for_tuple_struct with read_fields for the tuple style.
TupleStyleFromIdn(S, h, r) ==
  IF UnwrapsValue(S) THEN RRejected(h, r)
  ELSE TupleStruct(ReadFieldsFromTuple(S, h, r, [p \in 1..Len(S.fields) |-> <<>>]))

----------------------------------------------------------------------------
(* parse (idn.rs).                                                         *)

\* The match of parse with every error placed after the fatal one.
ParseResultFatalFirst(res, errors) ==
  IF res.tag = "Ok" /\ Len(errors) > 0 THEN [tag |-> "Err", errors |-> errors]
  ELSE IF res.tag = "Ok" THEN [tag |-> "Ok", value |-> res.val]
  ELSE [tag |-> "Err", errors |-> <<res.err[1]>> \o errors]

\* The match of parse: res is the Result of read_to_end, errors the clone of
\* reader.errors().
ParseResult(res, errors) ==
  IF res.tag = "Ok" /\ Len(errors) > 0 THEN [tag |-> "Err", errors |-> errors]
  ELSE IF res.tag = "Ok" THEN [tag |-> "Ok", value |-> res.val]
  ELSE [tag |-> "Err", errors |-> ErrorListAdd(errors, res.err[1])]

\* ==== SPECIFICATIONS ====
----------------------------------------------------------------------------
(* SpecLex: lex on every text of at most MaxLexLen characters, one pass of *)
(* the loop of Lexer::run per step.  `last` records the pass: the arm      *)
(* taken, the lexer before it and the fatal error it aborted with.         *)

Strings(alphabet, n) == UNION {[1..k -> alphabet] : k \in 0..n}

LexAlphabet == {"(", ")", "[", "]", "\"", "\\", "a", "1", ".", "/", "*", "\n"}

IdleDriver ==
  /\ pc = "idle"
  /\ cells = <<>>
  /\ log = <<>>
  /\ readers = <<>>
  /\ ty = [k |-> "none"]
  /\ result = [tag |-> "none"]

InitLex ==
  /\ input \in Strings(LexAlphabet, MaxLexLen)
  /\ lexer = LexerNew(input)
  /\ lexres = [tag |-> "none"]
  /\ last = [op |-> "none", before |-> lexer, err |-> <<>>]
  /\ IdleDriver

LexPass(arm, s) ==
  /\ lexres.tag = "none"
  /\ ~IsEof(lexer)
  /\ RunArm(lexer) = arm
  /\ lexer' = IF s.err = <<>> THEN s.lx ELSE LexFinish(s, 1).lx
  /\ lexres' = IF s.err = <<>> THEN lexres ELSE LexFinish(s, 1).res
  /\ last' = [op |-> arm, before |-> lexer, err |-> s.err]
  /\ UNCHANGED <<input, pc, cells, log, readers, ty, result>>

LexDelimiter == LexPass("delimiter", ReadDelimiter(lexer))
LexString == LexPass("string", ReadString(lexer))
LexComment == LexPass("comment", ReadComment(lexer))
LexCommentMultiline == LexPass("comment_multiline", ReadCommentMultiline(lexer))
LexNumberDecimal == LexPass("number_decimal", ReadNumber(lexer))
LexNumber == LexPass("number", ReadNumber(lexer))
LexWord == LexPass("word", ReadWordToken(lexer))
LexWhitespace ==
  LexPass("whitespace", [lx |-> ReadChar(lexer).lx, err |-> ReadChar(lexer).err])
LexSymbol == LexPass("symbol", ReadSymbolToken(lexer))

LexEnd ==
  /\ lexres.tag = "none"
  /\ IsEof(lexer)
  /\ lexer' = LexFinish(LexOk(RunDrain(lexer)), 1).lx
  /\ lexres' = LexFinish(LexOk(RunDrain(lexer)), 1).res
  /\ last' = [op |-> "end", before |-> lexer, err |-> <<>>]
  /\ UNCHANGED <<input, pc, cells, log, readers, ty, result>>

NextLex ==
  \/ LexDelimiter
  \/ LexString
  \/ LexComment
  \/ LexCommentMultiline
  \/ LexNumberDecimal
  \/ LexNumber
  \/ LexWord
  \/ LexWhitespace
  \/ LexSymbol
  \/ LexEnd

SpecLex == InitLex /\ [][NextLex]_vars

----------------------------------------------------------------------------
(* Properties of SpecLex.                                                  *)

DelimiterValues(tokens) ==
  LET delims == SelectSeq(tokens, LAMBDA t : t.kind = "Delimiter")
  IN [i \in 1..Len(delims) |-> delims[i].value]

\* Proper nesting, by rewriting: a sequence of delimiter characters is nested
\* when it is empty, or when removing some adjacent pair of an opening
\* delimiter and its reverse leaves a nested sequence.
RECURSIVE Nested(_)
Nested(s) ==
  \/ s = <<>>
  \/ \E i \in 1..(Len(s) - 1) :
       /\ s[i] \in OpenDelims
       /\ s[i + 1] = RevChar(s[i])
       /\ Nested(SubSeq(s, 1, i - 1) \o SubSeq(s, i + 2, Len(s)))

Front(s) == SubSeq(s, 1, Len(s) - 1)

\* C4 (the stack discipline): a pass of the loop that meets a delimiter pushes
\* and emits an opening one; accepts, emits and pops for a closing one that is
\* the reverse of the top of the stack; and aborts with a fatal error for a
\* closing one that does not match the top or that meets an empty stack.
C4_Stack ==
  last.op = "delimiter" =>
    LET c == PeekChar(last.before)[1]
        stack == last.before.open_delims
        top == stack[Len(stack)]
        emitted == lexer.tokens[Len(lexer.tokens)]
        Emitted ==
          /\ last.err = <<>>
          /\ Len(lexer.tokens) = Len(last.before.tokens) + 1
          /\ Front(lexer.tokens) = last.before.tokens
          /\ emitted.kind = "Delimiter"
          /\ emitted.value = c
        Fatal ==
          /\ last.err # <<>>
          /\ lexres.tag = "Err"
          /\ lexres.errors[Len(lexres.errors)] = last.err[1]
          /\ lexer.tokens = last.before.tokens
    IN /\ c \in OpenDelims => Emitted /\ lexer.open_delims = Append(stack, emitted)
       /\ c \in CloseDelims /\ stack # <<>> /\ top.value = RevChar(c) =>
            Emitted /\ lexer.open_delims = Front(stack)
       /\ c \in CloseDelims /\ stack # <<>> /\ top.value # RevChar(c) =>
            Fatal /\ last.err[1].message = <<"Expected {}, found {}.", RevChar(top.value), c>>
       /\ c \in CloseDelims /\ stack = <<>> =>
            Fatal /\ last.err[1].message = <<"Unexpected {}.", c>>

\* C4: the lexer keeps a stack of open delimiters (C4_Stack), and whenever lex
\* returns Ok the Delimiter tokens of the result are properly nested, every
\* close matching the kind of its open.
C4_DelimitersNested ==
  /\ C4_Stack
  /\ lexres.tag = "Ok" => Nested(DelimiterValues(TokensList(lexres.tokens)))

\* lex returned Ok on a text with two kinds of delimiters, one inside the other.
C4_Witness ==
  /\ lexres.tag = "Ok"
  /\ DelimiterValues(TokensList(lexres.tokens)) = <<"(", "[", "]", ")">>

IsPrefix(s, t) == Len(s) <= Len(t) /\ SubSeq(t, 1, Len(s)) = s

\* C5: lex returns Ok exactly when no error, fatal or not, was recorded by the
\* scan; a fatal error ends the scan in the pass that raised it, the returned
\* list is the non-fatal errors recorded before it followed by the fatal error,
\* no error is reported for the delimiters left open, and nothing after the
\* position the scan stopped at is examined: the text cut at that position
\* lexes to the same result.
C5_OkIffNoError ==
  /\ lexres.tag # "none" =>
       /\ lexres.tag = "Ok" <=> (lexer.errors = <<>> /\ last.err = <<>>)
       /\ lexres.tag = "Err" => lexres.errors = lexer.errors /\ lexres.errors # <<>>
  /\ last.err # <<>> =>
       /\ lexres.tag = "Err"
       /\ lexres.errors[Len(lexres.errors)] = last.err[1]
       /\ IsPrefix(last.before.errors, Front(lexres.errors))
       /\ \A i \in 1..(Len(lexres.errors) - 1) :
            lexres.errors[i].message[1] = "Unknown string escape {}."
       /\ lexer.pos.offset <= Len(input)
       /\ \A i \in 1..Len(lexres.errors) :
            lexres.errors[i].span.end.offset <= lexer.pos.offset
       /\ Lex(SubSeq(input, 1, lexer.pos.offset), 1) = lexres
  /\ last.err = <<>> /\ last.op # "none" /\ lexres.tag = "none" => ~IsEof(last.before)

\* A string with an unknown escape that is never closed: one non-fatal error,
\* then the fatal one.
C5_Witness ==
  /\ last.err # <<>>
  /\ lexres.tag = "Err"
  /\ Len(lexres.errors) = 2
  /\ lexres.errors[1].message[1] = "Unknown string escape {}."

\* C6: when the scan reaches the end of the input with k >= 1 delimiters still
\* open, lex fails, the errors recorded by the end of the scan are exactly k
\* Unmatched errors, one for each delimiter still open, and each carries the
\* span of that opening delimiter in the text.
C6_UnmatchedPerOpenDelimiter ==
  last.op = "end" /\ last.before.open_delims # <<>> =>
    LET stack == last.before.open_delims
        k == Len(stack)
        n == Len(last.before.errors)
        added == SubSeq(lexres.errors, n + 1, Len(lexres.errors))
    IN /\ lexres.tag = "Err"
       /\ IsPrefix(last.before.errors, lexres.errors)
       /\ Len(added) = k
       /\ \A i \in 1..k : added[i].message[1] = "Unmatched {}."
       /\ \A d \in 1..k :
            /\ Cardinality({i \in 1..k : added[i].span = stack[d].span}) = 1
            /\ input[stack[d].span.start.offset + 1] = stack[d].value
            /\ stack[d].span.end.offset = stack[d].span.start.offset + 1
            /\ \E i \in 1..k : /\ added[i].span = stack[d].span
                               /\ added[i].message[2] = stack[d].value

\* The end of the input was reached inside two open delimiters.
C6_Witness ==
  /\ last.op = "end"
  /\ Len(last.before.open_delims) = 2
  /\ lexres.tag = "Err"
  /\ Len(lexres.errors) = 2

----------------------------------------------------------------------------
(* SpecParse: parse::<ty>(input), one step for each statement of parse:    *)
(* the lexing of the text, read_to_end on the root reader, and the match   *)
(* on its result.                                                          *)

RECURSIVE Flatten(_)
Flatten(ss) == IF ss = <<>> THEN <<>> ELSE Head(ss) \o Flatten(Tail(ss))

ParseLexemes ==
  {<<"(">>, <<")">>, <<"[">>, <<"]">>, <<",">>, <<"\n">>, <<"t", "r", "u", "e">>, <<"1">>}

ParseInputs == {Flatten(ls) : ls \in Strings(ParseLexemes, MaxParseLexemes)}

TBool == [k |-> "bool"]
TUnit == [k |-> "unit"]
TString == [k |-> "String"]
TVec(T) == [k |-> "Vec", t |-> T]
TTuple(ts) == [k |-> "Tuple", ts |-> ts]

ParseTypes == {TBool, TUnit, TVec(TBool), TTuple(<<TUnit, TBool>>)}

\* The texts of a Vec<String>: the items between brackets, each two joined by
\* a separator, and a trailing comma or none after the last.
Separators == {<<",">>, <<"\n">>, <<",", "\n">>}
VecWords == {<<"a">>, <<"b">>}

RECURSIVE Join(_, _)
Join(items, seps) ==
  IF Len(items) <= 1 THEN Flatten(items)
  ELSE Head(items) \o Head(seps) \o Join(Tail(items), Tail(seps))

Render(items, seps, trailing) ==
  <<"[">> \o Join(items, seps) \o (IF trailing THEN <<",">> ELSE <<>>) \o <<"]">>

Renderings(items) ==
  {Render(items, seps, trailing) :
     seps \in [1..IntMax(Len(items) - 1, 0) -> Separators],
     trailing \in IF items = <<>> THEN {FALSE} ELSE BOOLEAN}

VecInputs == UNION {Renderings(items) : items \in Strings(VecWords, MaxVecItems)}

InitParse ==
  /\ \/ input \in ParseInputs /\ ty \in ParseTypes
     \/ input \in VecInputs /\ ty = TVec(TString)
  /\ lexer = LexerNew(input)
  /\ lexres = [tag |-> "none"]
  /\ pc = "start"
  /\ cells = <<>>
  /\ log = <<>>
  /\ readers = <<>>
  /\ last = [op |-> "none", tag |-> "none", val |-> <<>>, err |-> <<>>]
  /\ result = [tag |-> "none"]

\* let mut reader = Reader::new(input.as_ref().parse()?);
ParseLex(res, new) ==
  /\ pc = "start"
  /\ lexres' = res
  /\ IF res.tag = "Err"
       THEN /\ result' = [tag |-> "Err", errors |-> res.errors]
            /\ pc' = "done"
            /\ UNCHANGED <<cells, log, readers>>
       ELSE /\ cells' = new.h.cells
            /\ log' = new.h.log
            /\ readers' = <<new.r>>
            /\ pc' = "lexed"
            /\ UNCHANGED result
  /\ UNCHANGED <<input, lexer, last, ty>>

\* let result: Result<T> = reader.read_to_end();
ParseReadToEnd(x) ==
  /\ pc = "lexed"
  /\ cells' = x.h.cells
  /\ log' = x.h.log
  /\ readers' = <<x.r>>
  /\ last' = [op |-> "read_to_end", tag |-> x.tag, val |-> x.val, err |-> x.err]
  /\ pc' = "read"
  /\ UNCHANGED <<input, lexer, lexres, ty, result>>

\* let mut errors = reader.errors().clone(); match result { ... }
ParseReturn(errors) ==
  /\ pc = "read"
  /\ result' = IF last.tag = "Panic" THEN [tag |-> "Panic"] ELSE ParseResult(last, errors)
  /\ pc' = "done"
  /\ UNCHANGED <<input, lexer, lexres, cells, log, readers, last, ty>>

NextParse ==
  \/ ParseLex(Lex(input, 1),
              ReaderNew(HeapNew, IF Lex(input, 1).tag = "Ok" THEN Lex(input, 1).tokens
                                 ELSE TokensNew(1, SpanOfPos(PosDefault), <<>>)))
  \/ ParseReadToEnd(ReaderReadToEnd(ty, [cells |-> cells, log |-> log], readers[1]))
  \/ ParseReturn(ReaderErrors([cells |-> cells, log |-> log], readers[1]))

SpecParse == InitParse /\ [][NextParse]_vars

----------------------------------------------------------------------------
(* Properties of SpecParse.                                                *)

RootErrors == cells[readers[1].ctx.errors]

\* C1: parse returns Ok(value) exactly when lexing recorded no error, the
\* decode of T returned a value and the shared ErrorList is empty after
\* read_to_end.  Otherwise it returns Err: the ErrorList of the lexer when
\* lexing failed, and then no reader was made and nothing was decoded;
\* otherwise every non-fatal error in the order it was added, followed by the
\* fatal error of the decode, if there is one, as the last entry.
C1_ParseResult ==
  pc = "done" =>
    /\ result.tag \in {"Ok", "Err"}
    /\ result.tag = "Ok" <=>
         lexres.tag = "Ok" /\ last.op = "read_to_end" /\ last.tag = "Ok" /\ RootErrors = <<>>
    /\ result.tag = "Ok" => result.value = last.val
    /\ lexres.tag = "Err" =>
         /\ result = [tag |-> "Err", errors |-> lexres.errors]
         /\ lexres.errors # <<>>
         /\ readers = <<>> /\ cells = <<>> /\ last.op = "none"
    /\ lexres.tag = "Ok" /\ result.tag = "Err" =>
         /\ last.tag = "Ok" => result.errors = log /\ log # <<>>
         /\ last.tag = "Err" => result.errors = Append(log, last.err[1])

\* parse failed with a non-fatal error recorded and then a fatal one.
C1_Witness ==
  /\ pc = "done"
  /\ ty = TTuple(<<TUnit, TBool>>)
  /\ result.tag = "Err"
  /\ last.tag = "Err"
  /\ Len(log) = 1
  /\ Len(result.errors) = 2

\* What the decode of ty alone, without read_to_end around it, does to the
\* root reader that parse made.
DecodeAlone == FromIdn(ty, ReaderNew(HeapNew, lexres.tokens).h, ReaderNew(HeapNew, lexres.tokens).r)

\* C2: read_to_end calls finish() only after a decode during which no new
\* error was emitted: whenever the decode of T failed, fatally or by recording
\* an error, and tokens are left after the failure point, read_to_end has added
\* no error on top of those of the decode.
C2_NoCascade ==
  pc = "read" =>
    LET Failed(d) == d.tag = "Err" \/ d.h.log # <<>>
        NoCascade(d) ==
          Failed(d) /\ ~TokensIsEmpty(d.r.tokens) => cells = d.h.cells /\ log = d.h.log
    IN NoCascade(DecodeAlone)

\* C8: a Vec<String> in brackets decodes to its items in the order of the text,
\* whether two consecutive items are separated by a comma, by a line break or
\* by a comma and a line break, and with or without a comma after the last
\* item; [] decodes to the empty sequence.
C8_SeparatorsEquivalent ==
  pc = "done" /\ ty = TVec(TString) =>
    \A items \in Strings(VecWords, MaxVecItems) :
      input \in Renderings(items) => result = [tag |-> "Ok", value |-> items]

\* Three items, one separator of each kind between or after them.
C8_Witness ==
  /\ pc = "done"
  /\ input = Render(<<<<"a">>, <<"b">>, <<"a">>>>, <<<<"\n">>, <<",", "\n">>>>, TRUE)
  /\ result = [tag |-> "Ok", value |-> <<<<"a">>, <<"b">>, <<"a">>>>]

----------------------------------------------------------------------------
(* SpecReader: a client of the Reader API.  It holds the root reader of a  *)
(* lexed text and the readers its calls returned, and calls one operation  *)
(* on one of them per step, MaxCalls operations at most.  `last` records   *)
(* the call: the operation, the reader it was made on, that reader and the *)
(* cells before the call, what the call returned, and the number of calls  *)
(* made so far.  A call that panics ends the program.                      *)

ElementTexts ==
  {<<"a">>, <<"1">>, <<".", "5">>, <<"'", "'">>, <<"=">>, <<",">>,
   <<"(", "a", ",", "a", ")">>, <<"(", "\n", ")">>}

Gaps == {<<" ">>, <<"\n">>}

\* The texts of at most n elements, each two joined by a gap.
Texts(elements, n) ==
  UNION {{Join(els, gaps) : gaps \in [1..IntMax(Len(els) - 1, 0) -> Gaps]} :
           els \in Strings(elements, n)}

TReader == [k |-> "Reader"]

Heap == [cells |-> cells, log |-> log]

InitClient(inputs) ==
  /\ input \in inputs
  /\ lexer = LexerNew(input)
  /\ lexres = Lex(input, 1)
  /\ lexres.tag = "Ok"
  /\ cells = ReaderNew(HeapNew, lexres.tokens).h.cells
  /\ log = <<>>
  /\ readers = <<ReaderNew(HeapNew, lexres.tokens).r>>
  /\ last = [op |-> "new", i |-> 1, before |-> readers[1], cells |-> cells,
             tag |-> "Ok", val |-> <<>>, err |-> <<>>, n |-> 0]
  /\ pc = "client"
  /\ ty = [k |-> "none"]
  /\ result = [tag |-> "none"]

InitReader == InitClient(Texts(ElementTexts, MaxElements))

\* The client keeps the readers a call returns while it has room for them.
Keep(rs) == SubSeq(rs, 1, IntMin(Len(rs), MaxReaders))

Call(op, i, x, new, n) ==
  /\ pc = "client"
  /\ n <= MaxCalls
  /\ cells' = x.h.cells
  /\ log' = x.h.log
  /\ readers' = Keep([readers EXCEPT ![i] = x.r] \o new)
  /\ last' = [op |-> op, i |-> i, before |-> readers[i], cells |-> cells,
              tag |-> x.tag, val |-> x.val, err |-> x.err, n |-> n]
  /\ pc' = IF x.tag = "Panic" THEN "panicked" ELSE "client"
  /\ UNCHANGED <<input, lexer, lexres, ty, result>>

\* The readers a decoded value holds.
ReadersOf(op, x) ==
  IF x.tag # "Ok" THEN <<>>
  ELSE CASE op \in {"try_read_group", "list_next", "next_line"} ->
              IF x.val = <<>> THEN <<>>
              ELSE IF op = "try_read_group" THEN <<x.val[1].contents>>
              ELSE <<x.val[1]>>
         [] op = "read_group" -> <<x.val.contents>>
         [] op = "read_property" -> <<x.val.key, x.val.value>>
         [] op = "read_declaration" ->
              IF x.val.kind = "Property" THEN <<x.val.decl.key, x.val.decl.value>>
              ELSE <<x.val.decl>>
         [] op = "read_tuple" -> x.val
         [] OTHER -> <<>>

Derive(op, i, x) == Call(op, i, x, ReadersOf(op, x), last.n + 1)

TryReadElement(i, x) == Call("try_read_element", i, x, <<>>, last.n + 1)
TryReadSymbol(i, x) == Call("try_read_symbol", i, x, <<>>, last.n + 1)
TryReadWord(i, x) == Call("try_read_word", i, x, <<>>, last.n + 1)
TryReadGroup(i, x) == Derive("try_read_group", i, x)
ReadGroup(i, x) == Derive("read_group", i, x)
ListReaderNext(i, x) == Derive("list_next", i, x)
NextLine(i, x) == Derive("next_line", i, x)
ReadProperty(i, x) == Derive("read_property", i, x)
ReadDeclaration(i, x) == Derive("read_declaration", i, x)
ReadTuple(i, x) == Derive("read_tuple", i, x)

AddError(i, err) ==
  /\ Len(log) < MaxErrors
  /\ Call("add_error", i,
          [h |-> ReaderAddError(Heap, readers[i], err), r |-> readers[i], tag |-> "Ok",
           val |-> <<>>, err |-> <<err>>],
          <<>>, last.n)

Held == 1..Len(readers)

NextReader ==
  \/ \E i \in Held : TryReadElement(i, ElementTryFromIdn(Heap, readers[i]))
  \/ \E i \in Held, expected \in {{","}, {"="}} :
       TryReadSymbol(i, ReaderTryReadSymbol(Heap, readers[i], expected))
  \/ \E i \in Held : TryReadWord(i, ReaderTryReadWord(Heap, readers[i], <<"a">>))
  \/ \E i \in Held : TryReadGroup(i, ReaderTryReadGroup(Heap, readers[i], "("))
  \/ \E i \in Held : ReadGroup(i, ReaderReadGroup(Heap, readers[i], "("))
  \/ \E i \in Held : ListReaderNext(i, ListNext(Heap, readers[i]))
  \/ \E i \in Held : NextLine(i, ReaderNextLine(Heap, readers[i]))
  \/ \E i \in Held : ReadDeclaration(i, FromIdn([k |-> "Declaration"], Heap, readers[i]))

SpecReader == InitReader /\ [][NextReader]_vars

----------------------------------------------------------------------------
(* SpecErrors: the client of SpecReader deriving readers of every kind and *)
(* adding errors of its own through any reader it holds.                   *)

ErrorElementTexts == {<<"a">>, <<"=">>, <<"(", "a", ",", "a", ")">>}

InitErrors == InitClient(Texts(ErrorElementTexts, MaxElements))

NextErrors ==
  \/ \E i \in Held :
       AddError(i, ErrorNew(readers[i].tokens.span, <<"client error {}.", Len(log) + 1>>))
  \/ \E i \in Held : TryReadGroup(i, ReaderTryReadGroup(Heap, readers[i], "("))
  \/ \E i \in Held : ReadGroup(i, ReaderReadGroup(Heap, readers[i], "("))
  \/ \E i \in Held : ListReaderNext(i, ListNext(Heap, readers[i]))
  \/ \E i \in Held : NextLine(i, ReaderNextLine(Heap, readers[i]))
  \/ \E i \in Held : ReadProperty(i, FromIdn([k |-> "Property"], Heap, readers[i]))
  \/ \E i \in Held : ReadDeclaration(i, FromIdn([k |-> "Declaration"], Heap, readers[i]))
  \/ \E i \in Held : ReadTuple(i, FromIdn(TTuple(<<TReader, TReader>>), Heap, readers[i]))

SpecErrors == InitErrors /\ [][NextErrors]_vars

----------------------------------------------------------------------------
(* Properties of SpecErrors and SpecReader.                                *)

\* C3: there is one ErrorList: every reader the client holds, however it was
\* derived from the root, has the root's cell for its "errors"; the list
\* root.errors() is every error added through add_error on any reader, in the
\* order of the calls; a call only ever appends to it, and an add_error of the
\* client on any reader appends its error to it.
C3_SharedErrorList ==
  /\ Len(cells) = 1
  /\ \A i \in Held : readers[i].ctx.errors = readers[1].ctx.errors
  /\ ReaderErrors(Heap, readers[1]) = log
  /\ IsPrefix(last.cells[1], cells[1])
  /\ last.op = "add_error" => cells[1] = Append(last.cells[1], last.err[1])

\* Two errors of the client, the second added through the third reader it holds.
C3_Witness ==
  /\ Len(readers) = 3
  /\ last.op = "add_error"
  /\ last.i = 3
  /\ Len(cells[1]) = 2
  /\ cells[1][1].message = <<"client error {}.", 1>>
  /\ cells[1][2] = last.err[1]

\* The tokens of the window the last call was made on.
Before == TokensList(last.before.tokens)

IsOpen(t) == t.kind = "Delimiter" /\ t.value \in OpenDelims
IsClose(t) == t.kind = "Delimiter" /\ t.value \in CloseDelims
IsComma(t) == t.kind = "Symbol" /\ t.value = ","
IsSymbolEq(t) == t.kind = "Symbol" /\ t.value = "="

\* The number of delimiters opened and not closed in l[a..b].
Depth(l, a, b) ==
  Cardinality({j \in a..b : IsOpen(l[j])}) - Cardinality({j \in a..b : IsClose(l[j])})

\* The index of the last token of the element that starts at l[p].
ElementEnd(l, p) ==
  IF IsOpen(l[p])
    THEN CHOOSE q \in p..Len(l) :
           /\ Depth(l, p, q) = 0
           /\ \A j \in p..(q - 1) : Depth(l, p, j) > 0
    ELSE p

\* Where the item that starts at l[1] ends, looking at the elements from l[p]
\* on: item is the number of tokens of the item, rest the index of the first
\* token after the item and its comma.
RECURSIVE ItemCut(_, _)
ItemCut(l, p) ==
  LET After(q) ==
        IF q < Len(l) /\ l[q + 1].span.start.line > l[q].span.end.line
          THEN [item |-> q, rest |-> q + 1]
          ELSE ItemCut(l, q + 1)
  IN IF p > Len(l) THEN [item |-> Len(l), rest |-> Len(l) + 1]
     ELSE IF IsComma(l[p]) THEN [item |-> p - 1, rest |-> p + 1]
     ELSE After(ElementEnd(l, p))

\* C7: ListReader::next returns None on an empty window; otherwise it returns
\* an item that shares the context, whose window ends before the first comma
\* outside any group, the comma consumed from the parent; or else after the
\* first element whose following token starts on a later line than the element
\* ends; or else at the end of the window.  The item's window closes every
\* group it opens, and it stops before a token on the line its last token ends
\* on only if that token is a comma.
C7_ItemSplit ==
  last.op = "list_next" =>
    LET Split(l, cut, item, rest) ==
          /\ item = SubSeq(l, 1, cut.item)
          /\ rest = SubSeq(l, cut.rest, Len(l))
          /\ Depth(item, 1, Len(item)) = 0
          /\ \A j \in 1..Len(item) : Depth(item, 1, j) >= 0
          /\ Len(item) > 0 /\ Len(item) < Len(l) /\ ~IsComma(l[Len(item) + 1]) =>
               l[Len(item) + 1].span.start.line > item[Len(item)].span.end.line
    IN /\ last.tag = "Ok"
       /\ Before = <<>> => last.val = <<>> /\ readers[last.i] = last.before
       /\ Before # <<>> =>
            /\ last.val # <<>>
            /\ last.val[1].ctx = last.before.ctx
            /\ Split(Before, ItemCut(Before, 1), TokensList(last.val[1].tokens),
                     TokensList(readers[last.i].tokens))

\* An item that holds a group with a comma in it and ends at the line break.
C7_Witness ==
  /\ last.op = "list_next"
  /\ input = <<"(", "a", ",", "a", ")", "\n", "a">>
  /\ last.i = 1
  /\ Len(Before) = 6
  /\ Len(TokensList(last.val[1].tokens)) = 5
  /\ Len(TokensList(readers[1].tokens)) = 1

\* What the decode of a Declaration does when keys are the kinds of token
\* that, followed by the Symbol =, make a Property.
DeclarationDecision(keys) ==
  last.op = "read_declaration" =>
    LET IsProperty(l) ==
          /\ l[1].kind \in keys
          /\ Len(l) >= 2
          /\ l[2].kind = "Symbol"
          /\ l[2].value = "="
        Decoded(l, d) ==
          /\ d.kind \in {"Property", "Item"}
          /\ d.kind = "Property" <=> IsProperty(l)
          /\ d.kind = "Property" =>
               /\ TokensList(d.decl.key.tokens) = <<l[1]>>
               /\ d.decl.eq = l[2]
               /\ TokensList(d.decl.value.tokens) = SubSeq(l, 3, Len(l))
          /\ d.kind = "Item" => TokensList(d.decl.tokens) = l
    IN /\ Before = <<>> =>
            /\ last.tag = "Err"
            /\ last.err[1].message = <<"Expected declaration.">>
            /\ readers[last.i] = last.before
            /\ cells = last.cells
       /\ Before # <<>> => last.tag = "Ok" /\ Decoded(Before, last.val)

TryOps == {"try_read_element", "try_read_symbol", "try_read_word", "try_read_group"}

\* C10: a try-variant of reading never returns an Err and never panics, and
\* one that returns None leaves the window of the reader, range and span, and
\* the shared ErrorList as they were before the call.
C10_TryFrame ==
  last.op \in TryOps =>
    /\ last.tag = "Ok"
    /\ pc = "client"
    /\ last.val = <<>> => readers[last.i] = last.before /\ cells = last.cells

\* try_read_group returned None on the non-empty window of a derived reader.
C10_Witness ==
  /\ last.op = "try_read_group"
  /\ last.i = 2
  /\ last.val = <<>>
  /\ Before # <<>>

----------------------------------------------------------------------------
(* SpecElements: the client of SpecReader reading whole elements and       *)
(* groups of any depth, and finishing the readers it holds.                *)

GroupTexts ==
  {<<"a">>, <<",">>, <<"(", ")">>, <<"(", "a", ")">>, <<"[", "a", "]">>,
   <<"(", "(", "a", ")", ")">>, <<"(", "[", "a", "]", "a", ")">>,
   <<"(", "(", ")", "a", ")">>, <<"[", "(", "(", ")", ")", "]">>}

InitElements == InitClient(Texts(GroupTexts, MaxElements))

Finish(i, x) == Call("finish", i, x, <<>>, last.n + 1)
ReadElement(i, x) == Call("read_element", i, x, <<>>, last.n + 1)

NextElements ==
  \/ \E i \in Held : Finish(i, ReaderFinish(Heap, readers[i]))
  \/ \E i \in Held : ReadElement(i, ElementFromIdn(Heap, readers[i]))
  \/ \E i \in Held, open \in {"(", "["} :
       ReadGroup(i, ReaderReadGroup(Heap, readers[i], open))
  \/ \E i \in Held, open \in {"(", "["} :
       TryReadGroup(i, ReaderTryReadGroup(Heap, readers[i], open))
  \/ \E i \in Held : ListReaderNext(i, ListNext(Heap, readers[i]))

SpecElements == InitElements /\ [][NextElements]_vars

\* The span from the first token of l[p..q] to the last.
SpanOver(l, p, q) ==
  [start |-> l[p].span.start, end |-> l[q].span.end]

\* C11: finish never fails; after it the window of the reader is empty; when
\* the window was empty before, the ErrorList is as it was; when it held one
\* element or more, the ErrorList holds exactly one more error, whose message
\* is Unexpected ... and whose span is that of the first element of the window.
C11_FinishEmpties ==
  last.op = "finish" =>
    /\ last.tag = "Ok"
    /\ pc = "client"
    /\ TokensList(readers[last.i].tokens) = <<>>
    /\ readers[last.i].tokens.start = last.before.tokens.end
    /\ Before = <<>> => cells = last.cells
    /\ Before # <<>> =>
         /\ Len(cells[1]) = Len(last.cells[1]) + 1
         /\ IsPrefix(last.cells[1], cells[1])
         /\ cells[1][Len(cells[1])].span = SpanOver(Before, 1, ElementEnd(Before, 1))
         /\ cells[1][Len(cells[1])].message[1] = "Unexpected {}."

\* finish on a window of two elements, the first a group: one error, for the
\* group.
C11_Witness ==
  /\ last.op = "finish"
  /\ input = <<"(", "(", "a", ")", ")", " ", "a">>
  /\ Len(Before) = 6
  /\ TokensList(readers[last.i].tokens) = <<>>
  /\ Len(last.cells[1]) = 0
  /\ Len(cells[1]) = 1
  /\ cells[1][1].message = <<"Unexpected {}.", <<"group", "(", ")">>>>

GroupOps == {"read_element", "read_group", "try_read_group"}

\* The group a call returned, its contents as a list of tokens.
GroupRead ==
  LET Of(g, contents) == [open |-> g.open, contents |-> TokensList(contents), close |-> g.close]
  IN CASE last.op = "read_element" -> Of(last.val, last.val.contents)
       [] last.op = "read_group" -> Of(last.val, last.val.contents.tokens)
       [] last.op = "try_read_group" -> Of(last.val[1], last.val[1].contents.tokens)

\* The nesting depth of the group that opens at l[1] and closes at l[q].
Nesting(l, q) ==
  LET D == {Depth(l, 1, j) : j \in 1..q}
  IN CHOOSE d \in D : \A e \in D : e <= d

\* C12: a call that reads a group (read::<Element> on a window that starts
\* with an opening delimiter; read_group and try_read_group on a window that
\* starts with the delimiter asked for) succeeds, consumes the tokens up to and
\* including the closing delimiter that brings the count of open groups back
\* to zero, leaves the window starting on the token after it, and returns the
\* opening token, the closing token and, as contents, exactly the tokens
\* between the two.
C12_GroupContents ==
  /\ last.op \in GroupOps
  /\ Before # <<>>
  /\ IsOpen(Before[1])
  /\ last.op # "read_element" => last.tag = "Ok"
  /\ last.op = "try_read_group" => last.val # <<>>
  => LET Read(l, q, g) ==
           /\ TokensList(readers[last.i].tokens) = SubSeq(l, q + 1, Len(l))
           /\ readers[last.i].tokens.start = last.before.tokens.start + q
           /\ g.open = l[1]
           /\ g.close = l[q]
           /\ g.contents = SubSeq(l, 2, q - 1)
     IN /\ last.tag = "Ok"
        /\ cells = last.cells
        /\ Read(Before, ElementEnd(Before, 1), GroupRead)

\* A group of depth three read as an element, one token left after it.
C12_Witness ==
  /\ last.op = "read_element"
  /\ last.tag = "Ok"
  /\ input = <<"[", "(", "(", ")", ")", "]", " ", "a">>
  /\ Len(Before) = 7
  /\ Nesting(Before, 6) = 3
  /\ Len(GroupRead.contents) = 4
  /\ Len(TokensList(readers[last.i].tokens)) = 1

----------------------------------------------------------------------------
(* SpecTokens: code of the crate working on Tokens windows.  The text is   *)
(* lexed twice, which gives two arrays holding the same tokens; `readers`  *)
(* holds the windows, at most MaxWindows of them, and each step clones one,*)
(* takes the next token of one, truncates one before another or pops one,  *)
(* MaxTokenOps steps at most.  `last` records the step: the operation, the *)
(* window it was made on and the other window, both as they were before.   *)

MaxWindows == 3
MaxTokenOps == 5

TokenAlphabet == {"a", ","}

InitTokens ==
  /\ input \in Strings(TokenAlphabet, MaxLexLen)
  /\ lexer = LexerNew(input)
  /\ lexres = Lex(input, 1)
  /\ lexres.tag = "Ok"
  /\ readers = <<lexres.tokens, Lex(input, 2).tokens>>
  /\ last = [op |-> "lex", i |-> 1, j |-> 1, before |-> readers[1], other |-> readers[1],
             n |-> 0]
  /\ cells = <<>>
  /\ log = <<>>
  /\ pc = "tokens"
  /\ ty = [k |-> "none"]
  /\ result = [tag |-> "none"]

TokensStep(op, i, j, ws) ==
  /\ pc = "tokens"
  /\ last.n < MaxTokenOps
  /\ readers' = ws
  /\ last' = [op |-> op, i |-> i, j |-> j, before |-> readers[i], other |-> readers[j],
              n |-> last.n + 1]
  /\ UNCHANGED <<input, lexer, lexres, cells, log, pc, ty, result>>

TokensCloneStep(i) ==
  /\ Len(readers) < MaxWindows
  /\ TokensStep("clone", i, i, Append(readers, readers[i]))

TokensNextStep(i) ==
  TokensStep("next", i, i, [readers EXCEPT ![i] = TokensNext(@).tokens])

TokensTruncateBeforeStep(i, j) ==
  TokensStep("truncate_before", i, j,
             [readers EXCEPT ![i] = TokensTruncateBefore(@, readers[j])])

TokensPopStep(i) ==
  TokensStep("pop", i, i, [readers EXCEPT ![i] = TokensPop(@)])

NextTokens ==
  \/ \E i \in Held : TokensCloneStep(i)
  \/ \E i \in Held : TokensNextStep(i)
  \/ \E i \in Held, j \in Held : TokensTruncateBeforeStep(i, j)
  \/ \E i \in Held : TokensPopStep(i)

SpecTokens == InitTokens /\ [][NextTokens]_vars

\* The window w after k calls of next.
RECURSIVE Advanced(_, _)
Advanced(w, k) == IF k = 0 THEN w ELSE Advanced(TokensNext(w).tokens, k - 1)

\* C13: truncate_before(other) leaves a window of another array as it was;
\* on a window of the same array it keeps the array and the start of the range
\* and sets its end to the start of other, no lower than its own start and no
\* higher than its own end.  So when other is the window itself advanced by k
\* tokens, what is left is exactly the k tokens consumed.  pop keeps the start
\* and removes the last token of the window, and changes nothing on an empty
\* window.  Neither changes any other window.
C13_TruncateAndPop ==
  LET w == readers[last.i]
      b == last.before
      o == last.other
  IN /\ last.op = "truncate_before" =>
          /\ o.id # b.id => w = b
          /\ o.id = b.id =>
               /\ w.id = b.id /\ w.list = b.list /\ w.start = b.start
               /\ w.end = IF o.start < b.start THEN b.start
                          ELSE IF o.start > b.end THEN b.end ELSE o.start
          /\ \A k \in 0..Len(TokensList(b)) :
               o = Advanced(b, k) => TokensList(w) = SubSeq(TokensList(b), 1, k)
          /\ last.j # last.i => readers[last.j] = o
     /\ last.op = "pop" =>
          /\ w.id = b.id /\ w.list = b.list /\ w.start = b.start
          /\ TokensList(w) = Front(TokensList(b))
          /\ TokensList(b) = <<>> => w = b

\* A clone of the first window truncated before that window advanced by two
\* tokens, then popped: of the two tokens consumed the first is left.
C13_Witness ==
  /\ Len(readers) = 3
  /\ Len(lexres.tokens.list) >= 3
  /\ last.op = "pop"
  /\ last.i = 3
  /\ last.before.id = 1
  /\ TokensList(last.before) = SubSeq(lexres.tokens.list, 1, 2)
  /\ readers[1] = Advanced(lexres.tokens, 2)
  /\ TokensList(readers[3]) = SubSeq(lexres.tokens.list, 1, 1)

\* s is a run of consecutive elements of t.
IsInfix(s, t) == \E a \in 0..(Len(t) - Len(s)) : SubSeq(t, a + 1, a + Len(s)) = s

\* The range of the window w lies in its array, the array of the lexer run.
InArray(w) ==
  /\ 0 <= w.start
  /\ w.start <= w.end
  /\ w.end <= Len(w.list)
  /\ w.list = lexres.tokens.list

\* What the step from the windows before to the windows after did, op being
\* the operation and i the window it was made on: a clone adds a window
\* equal to window i; next raises the start of window i by one and keeps its
\* end; pop and truncate_before keep its start and do not raise its end;
\* next and pop leave an empty window as it was; every window stays a
\* window of the array it was one of, and the other windows stay as they
\* were.
WindowsStep(op, i, before, after) ==
  /\ \A k \in 1..Len(after) : InArray(after[k])
  /\ Len(after) = Len(before) + (IF op = "clone" THEN 1 ELSE 0)
  /\ \A k \in 1..Len(before) : k # i => after[k] = before[k]
  /\ after[i].id = before[i].id
  /\ op = "clone" => after[i] = before[i] /\ after[Len(after)] = before[i]
  /\ op = "next" =>
       /\ after[i].end = before[i].end
       /\ after[i].start = before[i].start + (IF TokensIsEmpty(before[i]) THEN 0 ELSE 1)
       /\ TokensIsEmpty(before[i]) => after[i] = before[i]
  /\ op \in {"pop", "truncate_before"} =>
       /\ after[i].start = before[i].start
       /\ after[i].end <= before[i].end
  /\ op = "pop" /\ TokensIsEmpty(before[i]) => after[i] = before[i]
  /\ IsInfix(TokensList(after[i]), TokensList(before[i]))

\* C28: through every sequence of clone, next, pop and truncate_before on
\* the windows of one lexer run, every window keeps 0 <= start <= end <=
\* the length of its array; next only raises start, by one; pop and
\* truncate_before only lower end; so the tokens of a window are always
\* tokens of the window it was cloned from; the array is never modified; and
\* next and pop on an empty window change nothing.
C28_WindowsInBounds ==
  /\ \A k \in Held : InArray(readers[k])
  /\ [][WindowsStep(last'.op, last'.i, readers, readers')]_vars

\* next on the third window, a clone emptied between the tokens of the
\* array, changed nothing.
C28_Witness ==
  /\ Len(readers) = 3
  /\ last.op = "next"
  /\ last.i = 3
  /\ TokensIsEmpty(last.before)
  /\ last.before.start > 0
  /\ last.before.start < Len(last.before.list)
  /\ readers[3] = last.before

----------------------------------------------------------------------------
(* SpecNumbers: the client of SpecReader decoding integers.  impl_for_int! *)
(* and impl_for_uint! are instantiated here for the types of 8 and of 16   *)
(* bits; the types of 32 and of 64 bits are the same macro bodies with     *)
(* another MAX and MIN, and every comparison of the bodies is made on the  *)
(* u64 of the token, where MAX + 1 of i64 does not overflow.               *)

IntWidths == {8, 16}

DigitChar(d) == <<"0", "1", "2", "3", "4", "5", "6", "7", "8", "9">>[d + 1]

\* The decimal text of a natural number and of an integer, as Display writes it.
RECURSIVE DigitsOf(_)
DigitsOf(n) == IF n < 10 THEN <<DigitChar(n)>> ELSE DigitsOf(n \div 10) \o <<DigitChar(n % 10)>>

IntText(v) == IF v < 0 THEN <<"-">> \o DigitsOf(0 - v) ELSE DigitsOf(v)

\* Every value of i8 and of u8 and the values next to them, and the values at
\* and next to the ends of i16 and u16.
NumberValues ==
  (-130..260) \cup (-32770..-32766) \cup (32766..32769) \cup (65534..65537)

OtherNumberTexts ==
  {<<>>,
   <<"a">>,
   <<"-">>,
   <<"+">>,
   <<"1", ".", "5">>,
   <<"-", "1", ".", "5">>,
   <<"+", ".", "5">>,
   <<"-", " ", "1">>,
   <<"+", " ", "1", "2", "7">>,
   <<"-", "0">>,
   <<"+", "0">>,
   <<"-", " ", "-", "1">>,
   <<"1", " ", "2">>,
   <<"-", "1", "2", "8", " ", "a">>,
   <<"0", "0", "7">>,
   <<"-", "a">>}

NumberInputs ==
  {IntText(v) : v \in NumberValues}
    \cup {<<"+">> \o DigitsOf(v) : v \in {0, 1, 127, 128, 255, 256, 32767, 32768, 65535, 65536}}
    \cup OtherNumberTexts

TInt(w) == [k |-> "int", w |-> w]
TUint(w) == [k |-> "uint", w |-> w]

IntOp(w) == IF w = 8 THEN "read_i8" ELSE "read_i16"
UintOp(w) == IF w = 8 THEN "read_u8" ELSE "read_u16"

InitNumbers == InitClient(NumberInputs)

ReadInt(i, w, x) == Call(IntOp(w), i, x, <<>>, last.n + 1)
ReadUint(i, w, x) == Call(UintOp(w), i, x, <<>>, last.n + 1)

NextNumbers ==
  \/ \E i \in Held, w \in IntWidths : ReadInt(i, w, FromIdn(TInt(w), Heap, readers[i]))
  \/ \E i \in Held, w \in IntWidths : ReadUint(i, w, FromIdn(TUint(w), Heap, readers[i]))

SpecNumbers == InitNumbers /\ [][NextNumbers]_vars

\* Whether the window l starts with an optional + or - and an Integer; the
\* sign and the magnitude it starts with.
IsSign(t) == t.kind = "Symbol" /\ t.value \in {"+", "-"}
HasSign(l) == Len(l) >= 1 /\ IsSign(l[1])
Signed(l) ==
  \/ Len(l) >= 1 /\ l[1].kind = "Integer"
  \/ Len(l) >= 2 /\ IsSign(l[1]) /\ l[2].kind = "Integer"
Minus(l) == HasSign(l) /\ l[1].value = "-"
Magnitude(l) == IF HasSign(l) THEN l[2].value ELSE l[1].value

\* The type the last call decoded: its MAX and, for a signed type, its MIN.
LastMax ==
  CASE last.op = "read_i8" -> 127 [] last.op = "read_i16" -> 32767
    [] last.op = "read_u8" -> 255 [] last.op = "read_u16" -> 65535

LastMin == IF last.op = "read_i8" THEN -128 ELSE -32768

\* The call ended in a fatal error whose message starts with one of the given
\* texts, and recorded nothing.
Fatal(texts) ==
  /\ last.tag = "Err"
  /\ last.err[1].message[1] \in texts
  /\ cells = last.cells

RangeMessages ==
  {"Expected integer less than or equal to {}.",
   "Expected integer greater than or equal to {}."}

\* C14: decoding i8 or i16 from a window that starts with an optional + or -
\* and an Integer of magnitude m gives m without a -, when m <= MAX; the
\* negation of m with a -, when m <= MAX; MIN with a -, when m = MAX + 1; and
\* a fatal range error in every other case, the sign and the Integer consumed
\* in all of them.  So the text of every value from MIN to MAX decodes to the
\* value, and the text of MIN - 1 and of MAX + 1 is a fatal range error.
C14_SignedRange ==
  last.op \in {"read_i8", "read_i16"} =>
    LET Decoded(l, m, rest) ==
          /\ ~Minus(l) /\ m <= LastMax => last.tag = "Ok" /\ last.val = m
          /\ Minus(l) /\ m <= LastMax => last.tag = "Ok" /\ last.val = 0 - m
          /\ Minus(l) /\ m = LastMax + 1 => last.tag = "Ok" /\ last.val = LastMin
          /\ m > LastMax + 1 \/ (~Minus(l) /\ m > LastMax) => Fatal(RangeMessages)
          /\ TokensList(readers[last.i].tokens) = rest
    IN /\ Signed(Before) =>
            Decoded(Before, Magnitude(Before),
                    SubSeq(Before, IF HasSign(Before) THEN 3 ELSE 2, Len(Before)))
       /\ \A v \in {u \in NumberValues : u >= LastMin - 1 /\ u <= LastMax + 1} :
            input = IntText(v) /\ last.n = 1 =>
              IF v >= LastMin /\ v <= LastMax
                THEN last.tag = "Ok" /\ last.val = v /\ cells = last.cells
                ELSE Fatal(RangeMessages)

\* -128 decoded as the i8 MIN.
C14_Witness ==
  /\ last.op = "read_i8"
  /\ input = <<"-", "1", "2", "8">>
  /\ Minus(Before)
  /\ Magnitude(Before) = 128
  /\ last.tag = "Ok"
  /\ last.val = -128

\* C15: decoding u8 or u16 from a window that starts with an optional + or -
\* and an Integer of magnitude m is a fatal error whenever the sign is -, for
\* m = 0 as well; a fatal error when m > MAX; and m otherwise.  A Float where
\* the Integer is expected is a fatal error.  No case records an error in the
\* ErrorList.
C15_UnsignedRange ==
  last.op \in {"read_u8", "read_u16"} =>
    LET Decoded(l, m) ==
          /\ Minus(l) => Fatal({"Expected non-negative integer."})
          /\ ~Minus(l) /\ m > LastMax =>
               Fatal({"Expected integer less than or equal to {}."})
          /\ ~Minus(l) /\ m <= LastMax => last.tag = "Ok" /\ last.val = m
          /\ TokensList(readers[last.i].tokens) =
               SubSeq(l, IF HasSign(l) THEN 3 ELSE 2, Len(l))
        FloatAt(l, p) == Len(l) >= p /\ l[p].kind = "Float"
    IN /\ Signed(Before) => Decoded(Before, Magnitude(Before))
       /\ FloatAt(Before, IF HasSign(Before) THEN 2 ELSE 1) =>
            Fatal({"Expected integer, found floating-point number."})

\* -0 refused by u8.
C15_Witness ==
  /\ last.op = "read_u8"
  /\ input = <<"-", "0">>
  /\ Minus(Before)
  /\ Magnitude(Before) = 0
  /\ last.tag = "Err"
  /\ last.err[1].message = <<"Expected non-negative integer.">>

----------------------------------------------------------------------------
(* SpecCompound: the client of SpecReader decoding tuples and maps.  The   *)
(* texts are a group of items, each two joined by a comma or a line break, *)
(* with or without a comma after the last, and a few texts that are not    *)
(* such a group.                                                           *)

MaxTupleItems == 4

TupleItemTexts == {<<"t", "r", "u", "e">>, <<"5">>, <<"5", " ", "5">>}
ItemSeparators == {<<",">>, <<"\n">>}

\* The items between the delimiters open and close.
RenderGroup(open, close, items, seps, trailing) ==
  <<open>> \o Join(items, seps) \o (IF trailing THEN <<",">> ELSE <<>>) \o <<close>>

GroupRenderings(open, close, texts, n) ==
  {RenderGroup(open, close, items, seps, trailing) :
     items \in [1..n -> texts], seps \in [1..IntMax(n - 1, 0) -> ItemSeparators],
     trailing \in IF n = 0 THEN {FALSE} ELSE BOOLEAN}

TupleInputs ==
  UNION {GroupRenderings("(", ")", TupleItemTexts, n) : n \in 0..MaxTupleItems}
    \cup {<<>>, <<"t", "r", "u", "e">>, <<"[", "t", "r", "u", "e", ",", "5", "]">>,
          <<"(", "t", "r", "u", "e", ",", "5", ")", " ", "5">>}

\* The tuple types decoded: (bool, u8) and (bool, u8, bool).
TupleTypes(n) ==
  IF n = 2 THEN <<TBool, TUint(8)>> ELSE <<TBool, TUint(8), TBool>>

TupleOp(n) == IF n = 2 THEN "read_tuple2" ELSE "read_tuple3"

MaxMapItems == 3

MapItemTexts ==
  {<<"a", "=", "1">>, <<"a", " ", "=", " ", "-", " ", "2">>, <<"'", "b", "'", "=", "+", "3">>,
   <<"a", " ", "1">>, <<"a", "=", "b">>, <<"5", "=", "1">>}

MapInputs ==
  UNION {GroupRenderings("{", "}", MapItemTexts, n) : n \in 0..MaxMapItems}
    \cup {<<"[", "a", "=", "1", "]">>, <<"a", "=", "1">>,
          <<"{", "a", "=", "1", "}", " ", "{", "}">>}

THashMap(K, V) == [k |-> "HashMap", kt |-> K, vt |-> V]

InitCompound == InitClient(TupleInputs \cup MapInputs)

ReadMap(i, x) == Call("read_map", i, x, <<>>, last.n + 1)

ReadTupleOf(i, n, x) == Call(TupleOp(n), i, x, <<>>, last.n + 1)

NextCompound ==
  \/ \E i \in Held, n \in {2, 3} :
       ReadTupleOf(i, n, FromIdn(TTuple(TupleTypes(n)), Heap, readers[i]))
  \/ \E i \in Held : ReadMap(i, FromIdn(THashMap(TString, TInt(8)), Heap, readers[i]))

SpecCompound == InitCompound /\ [][NextCompound]_vars

\* The items of the list l: the windows ListReader::next cuts it into.
RECURSIVE Items(_)
Items(l) ==
  IF l = <<>> THEN <<>>
  ELSE <<SubSeq(l, 1, ItemCut(l, 1).item)>> \o Items(SubSeq(l, ItemCut(l, 1).rest, Len(l)))

IsWordOf(t, s) == t.kind = "Word" /\ t.value = s

\* Whether the item is one token that T decodes, and the value it decodes to.
Clean(T, item) ==
  /\ Len(item) = 1
  /\ CASE T.k = "bool" ->
            IsWordOf(item[1], <<"t", "r", "u", "e">>)
              \/ IsWordOf(item[1], <<"f", "a", "l", "s", "e">>)
       [] T.k = "uint" -> item[1].kind = "Integer" /\ item[1].value <= 255
       [] T.k = "String" -> item[1].kind \in {"Word", "StringLiteral"}

ValueOf(T, item) ==
  CASE T.k = "bool" -> IsWordOf(item[1], <<"t", "r", "u", "e">>)
    [] T.k = "uint" -> item[1].value
    [] T.k = "String" -> item[1].value

\* The call recorded just one error more, an Unexpected ... one.
OneUnexpected ==
  /\ Len(cells[1]) = Len(last.cells[1]) + 1
  /\ IsPrefix(last.cells[1], cells[1])
  /\ cells[1][Len(cells[1])].message[1] = "Unexpected {}."

\* C16: decoding a tuple of n positions is the fatal error Expected tuple on an
\* empty window, and Expected tuple, found ... when the next element is not a
\* group in parentheses.  Otherwise the group is consumed, and with k items in
\* it, the first of which each hold just one token its position decodes:
\* k < n is the fatal error Expected an element; k >= n gives the values of the
\* first n items in the order of the positions; k = n records no error and
\* k > n records exactly one error, Unexpected ....
C16_TupleArity ==
  last.op \in {"read_tuple2", "read_tuple3"} =>
    LET ts == TupleTypes(IF last.op = "read_tuple2" THEN 2 ELSE 3)
        Decoded(items, k, n) ==
          (\A p \in 1..IntMin(k, n) : Clean(ts[p], items[p])) =>
            /\ k < n => Fatal({"Expected an element."})
            /\ k >= n =>
                 /\ last.tag = "Ok"
                 /\ last.val = [p \in 1..n |-> ValueOf(ts[p], items[p])]
            /\ k = n => cells = last.cells
            /\ k > n => OneUnexpected
        Group(l, q) ==
          /\ TokensList(readers[last.i].tokens) = SubSeq(l, q + 1, Len(l))
          /\ Decoded(Items(SubSeq(l, 2, q - 1)), Len(Items(SubSeq(l, 2, q - 1))), Len(ts))
    IN /\ Before = <<>> => Fatal({"Expected tuple."})
       /\ Before # <<>> /\ ~(IsOpen(Before[1]) /\ Before[1].value = "(") =>
            Fatal({"Expected tuple, found {}."})
       /\ Before # <<>> /\ IsOpen(Before[1]) /\ Before[1].value = "(" =>
            Group(Before, ElementEnd(Before, 1))

\* Four items decoded as (bool, u8): the two values, and one error for the
\* items left.
C16_Witness ==
  /\ last.op = "read_tuple2"
  /\ input = RenderGroup("(", ")", <<<<"t", "r", "u", "e">>, <<"5">>, <<"5">>,
                                     <<"t", "r", "u", "e">>>>,
                         <<<<",">>, <<"\n">>, <<",">>>>, TRUE)
  /\ Len(Items(SubSeq(Before, 2, Len(Before) - 1))) = 4
  /\ last.tag = "Ok"
  /\ last.val = <<TRUE, 5>>
  /\ Len(last.cells[1]) = 0
  /\ Len(cells[1]) = 1

\* Whether the item is a key that String decodes, the Symbol = and an i8 with
\* or without a sign; its key and its value.
WellFormed(item) ==
  /\ Len(item) \in {3, 4}
  /\ item[1].kind \in {"Word", "StringLiteral"}
  /\ IsSymbolEq(item[2])
  /\ Signed(SubSeq(item, 3, Len(item)))
  /\ HasSign(SubSeq(item, 3, Len(item))) <=> Len(item) = 4
  /\ Magnitude(SubSeq(item, 3, Len(item))) <= 127

KeyOf(item) == item[1].value

I8Of(item) ==
  IF Minus(SubSeq(item, 3, Len(item))) THEN 0 - Magnitude(SubSeq(item, 3, Len(item)))
  ELSE Magnitude(SubSeq(item, 3, Len(item)))

\* The map of well-formed items: each key with the value of the last item
\* that has it.
LastValues(items) ==
  LET LastOf(key) ==
        CHOOSE p \in 1..Len(items) :
          /\ KeyOf(items[p]) = key
          /\ \A q \in (p + 1)..Len(items) : KeyOf(items[q]) # key
  IN [key \in {KeyOf(items[p]) : p \in 1..Len(items)} |-> I8Of(items[LastOf(key)])]

\* C17: decoding a HashMap<String, i8> is a fatal error unless the next
\* element is a group in braces.  Otherwise the group is consumed; when every
\* item of it is a key, the Symbol = and a value with or without a sign, the
\* result is the map of each key to the value of the last item that has the
\* key, and no error is recorded, a repeated key included; when an item has no
\* =, or a key or a value that does not decode, the result is a fatal error.
C17_MapItems ==
  last.op = "read_map" =>
    LET Braces(l) == l # <<>> /\ IsOpen(l[1]) /\ l[1].value = "{"
        Decoded(items) ==
          /\ (\A p \in 1..Len(items) : WellFormed(items[p])) =>
               /\ last.tag = "Ok"
               /\ last.val = LastValues(items)
               /\ cells = last.cells
          /\ (\E p \in 1..Len(items) : ~WellFormed(items[p])) => last.tag = "Err"
        Group(l, q) ==
          /\ TokensList(readers[last.i].tokens) = SubSeq(l, q + 1, Len(l))
          /\ Decoded(Items(SubSeq(l, 2, q - 1)))
    IN /\ ~Braces(Before) => Fatal({"Expected {}...{}.", "Expected {}...{}, found {}."})
       /\ Braces(Before) => Group(Before, ElementEnd(Before, 1))

\* Three items, the key a in the first and in the last: a has the value of the
\* last, and no error is recorded.
C17_Witness ==
  /\ last.op = "read_map"
  /\ input = RenderGroup("{", "}", <<<<"a", "=", "1">>, <<"'", "b", "'", "=", "+", "3">>,
                                     <<"a", " ", "=", " ", "-", " ", "2">>>>,
                         <<<<"\n">>, <<",">>>>, TRUE)
  /\ last.tag = "Ok"
  /\ DOMAIN last.val = {<<"a">>, <<"b">>}
  /\ last.val[<<"a">>] = -2
  /\ last.val[<<"b">>] = 3
  /\ cells = last.cells

----------------------------------------------------------------------------
(* SpecRecord: the client of SpecReader decoding structs that derive       *)
(* FromIdn in block style.  Plain has a required property x, a property y  *)
(* with the default true and a required item z; Prefixed has a prefix p    *)
(* before a required property x and the property y; CatchAll has a         *)
(* required property x and an `items *` field of readers.  The texts are a *)
(* block of declarations, alone or after a value for the prefix.           *)

MaxRecordItems == 3

Field(name, kind, default, T) == [name |-> name, kind |-> kind, default |-> default, ty |-> T]

Plain ==
  [desc |-> "Plain",
   fields |-> <<Field(<<"x">>, "Property", <<>>, TBool),
                Field(<<"y">>, "Property", <<TRUE>>, TBool),
                Field(<<"z">>, "Item", <<>>, TBool)>>]

Prefixed ==
  [desc |-> "Prefixed",
   fields |-> <<Field(<<"p">>, "Prefix", <<>>, TBool),
                Field(<<"x">>, "Property", <<>>, TBool),
                Field(<<"y">>, "Property", <<TRUE>>, TBool)>>]

CatchAll ==
  [desc |-> "CatchAll",
   fields |-> <<Field(<<"x">>, "Property", <<>>, TBool),
                Field(<<"rest">>, "ItemAll", <<>>, TReader)>>]

Tagged ==
  [desc |-> "Tagged",
   fields |-> <<Field(<<"x">>, "Property", <<>>, TBool),
                Field(<<"t">>, "ItemList", <<>>, TBool)>>]

Shapes == {Plain, Prefixed, CatchAll, Tagged}

RecordItemTexts ==
  {<<"x", "=", "t", "r", "u", "e">>, <<"x", "=", "f", "a", "l", "s", "e">>,
   <<"y", "=", "f", "a", "l", "s", "e">>, <<"z", " ", "t", "r", "u", "e">>,
   <<"q", "=", "t", "r", "u", "e">>, <<"q">>, <<"5", "=", "1">>}

\* The blocks of n declarations, every two joined by the same separator.
Blocks(n) ==
  {RenderGroup("{", "}", items, [j \in 1..IntMax(n - 1, 0) |-> sep], FALSE) :
     items \in [1..n -> RecordItemTexts], sep \in ItemSeparators}

MaxTagItems == 4

\* The declarations of the blocks for the `items` field t: with a value, with
\* a value that bool does not decode, and without one.
TagItemTexts ==
  {<<"x", "=", "t", "r", "u", "e">>, <<"t", " ", "t", "r", "u", "e">>,
   <<"t", " ", "f", "a", "l", "s", "e">>, <<"t", " ", "5">>, <<"t">>}

TagBlocks(n) ==
  {RenderGroup("{", "}", items, [j \in 1..IntMax(n - 1, 0) |-> sep], FALSE) :
     items \in [1..n -> TagItemTexts], sep \in ItemSeparators}

TagInputs == UNION {TagBlocks(n) : n \in 1..MaxTagItems}

RecordInputs ==
  UNION {Blocks(n) : n \in 0..MaxRecordItems}
    \cup {<<"t", "r", "u", "e", " ">> \o b : b \in Blocks(0) \cup Blocks(1)}
    \cup {<<>>, <<"t", "r", "u", "e">>, <<"5">>, <<"{", "}", " ", "5">>}

InitRecord == InitClient(RecordInputs \cup TagInputs)

ReadRecord(i, S, x) == Call(S.desc, i, x, <<>>, last.n + 1)

NextRecord ==
  \/ \E i \in Held, S \in Shapes : ReadRecord(i, S, RecordFromIdn(S, Heap, readers[i]))

SpecRecord == InitRecord /\ [][NextRecord]_vars

RecordOps == {S.desc : S \in Shapes}

ShapeOf(op) == CHOOSE S \in Shapes : S.desc = op

\* The window of a record call is the values of the prefix fields, one token
\* that bool decodes for each, and what follows them.
PrefixCount(S) == Cardinality({p \in 1..Len(S.fields) : S.fields[p].kind = "Prefix"})

PrefixClean(S, l) ==
  /\ Len(l) >= PrefixCount(S)
  /\ \A j \in 1..PrefixCount(S) : Clean(TBool, <<l[j]>>)

AfterPrefix(S, l) == SubSeq(l, PrefixCount(S) + 1, Len(l))

IsBlock(l) == l # <<>> /\ IsOpen(l[1]) /\ l[1].value = "{"

\* The declarations of the block that starts at l[1].
DeclarationsOf(l) == Items(SubSeq(l, 2, ElementEnd(l, 1) - 1))

\* Whether the declaration has the key name: its first token is a Word or a
\* StringLiteral of that text.
HasKey(item, name) ==
  /\ item # <<>>
  /\ item[1].kind \in {"Word", "StringLiteral"}
  /\ item[1].value = name

Occurrences(items, name) == {j \in 1..Len(items) : HasKey(items[j], name)}

\* The names of the property and item fields without a default that no
\* declaration has as its key, in the order of the fields.
Absent(S, items) ==
  LET Names(fs) == [j \in 1..Len(fs) |-> fs[j].name]
      Required(f) ==
        /\ f.kind \in {"Property", "Item"}
        /\ f.default = <<>>
        /\ Occurrences(items, f.name) = {}
  IN Names(SelectSeq(S.fields, Required))

MissingMessage(S, absent) ==
  IF Len(absent) = 1 THEN <<"Missing {} in {}.", absent[1], S.desc>>
  ELSE <<"Missing in {}: {}.", S.desc, JoinComma(absent)>>

\* What a record call gives for the fields that no declaration names, on a
\* window that is the prefix values and then a block, or, when noBlock allows
\* it, the prefix values of a struct with prefix fields and nothing else.
MissingDecision(noBlock) ==
  last.op \in RecordOps =>
    LET Reported(S, absent) ==
          /\ last.tag = "Err"
          /\ last.err[1].message = MissingMessage(S, absent)
        Defaults(S, items) ==
          \A p \in 1..Len(S.fields) :
            /\ S.fields[p].kind \in {"Property", "Item"}
            /\ S.fields[p].default # <<>>
            /\ Occurrences(items, S.fields[p].name) = {}
            => last.val[p] = S.fields[p].default[1]
        Scanned(S, items, absent) ==
          /\ absent # <<>> => Reported(S, absent)
          /\ absent = <<>> /\ last.tag = "Ok" => Defaults(S, items)
        Decoded(S, l) ==
          /\ IsBlock(l) => Scanned(S, DeclarationsOf(l), Absent(S, DeclarationsOf(l)))
          /\ noBlock /\ HasPrefix(S) /\ l = <<>> => Scanned(S, <<>>, Absent(S, <<>>))
        Shape(S) == PrefixClean(S, Before) => Decoded(S, AfterPrefix(S, Before))
    IN Shape(ShapeOf(last.op))

\* C18: in block style, for a struct with or without prefix fields and every
\* input, when a property or an item field without a default is absent from
\* the input the decode ends with the one Missing error that names every such
\* field, Missing {} in {} for one and Missing in {}: {} with the names joined
\* by a comma for several, never with a panic or a value; an absent field with
\* a default receives the default.
C18_MissingReported == MissingDecision(TRUE)

\* The same on the windows that hold a block: the struct with prefix fields
\* decoded from its prefix values alone is the one case that departs.
MissingAfterBlock == MissingDecision(FALSE)

\* The errors the last call recorded.
NewErrors == SubSeq(cells[1], Len(last.cells[1]) + 1, Len(cells[1]))

\* The field of S that a declaration names: the position of the property or
\* item field whose name is the key of the declaration, 0 when there is none.
NamedField(S, item) ==
  LET Only(P) == IF P = {} THEN 0 ELSE CHOOSE p \in P : TRUE
  IN Only({p \in 1..Len(S.fields) :
             /\ S.fields[p].kind \in {"Property", "Item"}
             /\ HasKey(item, S.fields[p].name)})

\* The position of the `items` field whose name is the key of the
\* declaration, 0 when there is none.
ListField(S, item) ==
  LET Only(P) == IF P = {} THEN 0 ELSE CHOOSE p \in P : TRUE
  IN Only({p \in 1..Len(S.fields) :
             S.fields[p].kind = "ItemList" /\ HasKey(item, S.fields[p].name)})

\* A declaration written as its field asks: the key, the Symbol = for a
\* property, and one token that bool decodes.
Declared(S, item) ==
  LET Written(f) ==
        IF f.kind = "Property"
          THEN Len(item) = 3 /\ IsSymbolEq(item[2]) /\ Clean(TBool, <<item[3]>>)
          ELSE Len(item) = 2 /\ Clean(TBool, <<item[2]>>)
  IN NamedField(S, item) # 0 => Written(S.fields[NamedField(S, item)])

\* The Duplicate errors of the declarations: one for each declaration that
\* names a field an earlier declaration names, at the span of its key.
DuplicatesOf(S, items) ==
  LET Extra(j) ==
        /\ NamedField(S, items[j]) # 0
        /\ \E i \in 1..(j - 1) : NamedField(S, items[i]) = NamedField(S, items[j])
      Duplicate(f, key) ==
        ErrorNew(key.span,
                 <<IF f.kind = "Property" THEN "Duplicate {} property in {}."
                   ELSE "Duplicate {} item in {}.",
                   f.name, S.desc>>)
      Errors(js) ==
        [n \in 1..Len(js) |-> Duplicate(S.fields[NamedField(S, items[js[n]])], items[js[n]][1])]
  IN Errors(SelectSeq([j \in 1..Len(items) |-> j], Extra))

IsDuplicate(e) ==
  e.message[1] \in {"Duplicate {} property in {}.", "Duplicate {} item in {}."}

\* C19: in block style, a declaration whose key is the name of a property or
\* an item field that an earlier declaration has set adds one Duplicate error,
\* at its key, and no other; the error is not fatal: the declarations after it
\* are scanned, the result is a value whenever no required field is absent,
\* and each field has the value of the first declaration that names it.
C19_DuplicateKept ==
  last.op \in RecordOps =>
    LET First(js) == CHOOSE j \in js : \A i \in js : j <= i
        Kept(S, items) ==
          \A p \in 1..Len(S.fields) :
            /\ S.fields[p].kind \in {"Property", "Item"}
            /\ Occurrences(items, S.fields[p].name) # {}
            => last.val[p] =
                 ValueOf(TBool, <<items[First(Occurrences(items, S.fields[p].name))]
                                       [Len(items[First(Occurrences(items, S.fields[p].name))])]>>)
        Scanned(S, items) ==
          /\ last.tag # "Panic"
          /\ SelectSeq(NewErrors, IsDuplicate) = DuplicatesOf(S, items)
          /\ last.tag = "Ok" <=> Absent(S, items) = <<>>
          /\ last.tag = "Ok" => Kept(S, items)
        Block(S, items) ==
          (\A j \in 1..Len(items) : Declared(S, items[j])) => Scanned(S, items)
        Decoded(S, l) == IsBlock(l) => Block(S, DeclarationsOf(l))
        Shape(S) == PrefixClean(S, Before) => Decoded(S, AfterPrefix(S, Before))
    IN Shape(ShapeOf(last.op))

\* x = true, x = false and z true decoded as Plain: x is true, the second x is
\* the one error, and z, which comes after it, is set.
C19_Witness ==
  /\ last.op = "Plain"
  /\ IsBlock(Before)
  /\ Len(DeclarationsOf(Before)) = 3
  /\ Occurrences(DeclarationsOf(Before), <<"x">>) = {1, 2}
  /\ Occurrences(DeclarationsOf(Before), <<"z">>) = {3}
  /\ IsWordOf(DeclarationsOf(Before)[2][3], <<"f", "a", "l", "s", "e">>)
  /\ last.tag = "Ok"
  /\ last.val = <<TRUE, TRUE, TRUE>>
  /\ Len(NewErrors) = 1
  /\ NewErrors[1].message = <<"Duplicate {} property in {}.", <<"x">>, "Plain">>
  /\ NewErrors[1].span = DeclarationsOf(Before)[2][1].span

TokenKinds == {"Delimiter", "Float", "Integer", "StringLiteral", "Symbol", "Word"}

IsUnknown(e) == e.message[1] = "Unknown {} {} in {}."

\* The errors of seq at the span.
ErrorsAt(seq, span) ==
  LET At(e) == e.span = span
  IN SelectSeq(seq, At)

\* What the scan of a block does with the declarations that name no field,
\* when keys are the kinds of first token that make a key.  With an `items *`
\* field at position all the declaration is appended to the field and nothing
\* is recorded for it; without one, a declaration with a key is the one error
\* Unknown property when the Symbol = follows the key and Unknown item when
\* it does not, and a declaration without a key is the one error Unexpected
\* ... of Reader::finish.  The scan goes on in every case.
UnknownDecision(keys) ==
  last.op \in RecordOps =>
    LET Unnamed(S, items) ==
          LET Free(j) == NamedField(S, items[j]) = 0 /\ ListField(S, items[j]) = 0
          IN SelectSeq([j \in 1..Len(items) |-> j], Free)
        Unknown(S, item) ==
          ErrorNew(item[1].span,
                   <<"Unknown {} {} in {}.",
                     IF Len(item) >= 2 /\ IsSymbolEq(item[2]) THEN "property" ELSE "item",
                     item[1].value, S.desc>>)
        Reported(S, item, errors) ==
          /\ Len(errors) = 1
          /\ item[1].kind \in keys => errors[1] = Unknown(S, item)
          /\ item[1].kind \notin keys => errors[1].message[1] = "Unexpected {}."
        Appended(all, items, js) ==
          /\ SelectSeq(NewErrors, IsUnknown) = <<>>
          /\ \A n \in 1..Len(js) : ErrorsAt(NewErrors, items[js[n]][1].span) = <<>>
          /\ last.tag = "Ok" =>
               /\ Len(last.val[all]) = Len(js)
               /\ \A n \in 1..Len(js) : TokensList(last.val[all][n].tokens) = items[js[n]]
        Each(S, items, js) ==
          /\ Len(SelectSeq(NewErrors, IsUnknown))
               = Cardinality({n \in 1..Len(js) : items[js[n]][1].kind \in keys})
          /\ \A n \in 1..Len(js) :
               Reported(S, items[js[n]], ErrorsAt(NewErrors, items[js[n]][1].span))
        Scanned(S, items, all) ==
          /\ last.tag # "Panic"
          /\ last.tag = "Ok" <=> Absent(S, items) = <<>>
          /\ all # 0 => Appended(all, items, Unnamed(S, items))
          /\ all = 0 => Each(S, items, Unnamed(S, items))
        Block(S, items) ==
          (\A j \in 1..Len(items) : Declared(S, items[j])) => Scanned(S, items, ItemAllOf(S))
        Decoded(S, l) == IsBlock(l) => Block(S, DeclarationsOf(l))
        Shape(S) == PrefixClean(S, Before) => Decoded(S, AfterPrefix(S, Before))
    IN Shape(ShapeOf(last.op))

\* C20 as the claim states it: without an `items *` field, every declaration
\* that names no field is one Unknown item or Unknown property error, whatever
\* its first token.
C20_AnyKeyUnknown == UnknownDecision(TokenKinds)

\* C20: in block style, a declaration that names no field is appended to the
\* `items *` field when the struct has one, and no Unknown error is recorded.
\* When the struct has none, a declaration whose first token is a Word or a
\* StringLiteral adds one error that is not fatal, Unknown property when the
\* Symbol = follows the key and Unknown item when it does not, at the span of
\* the key; a declaration that starts with any other token adds the one error
\* Unexpected ... instead.  The scan continues with the next declaration.
C20_UnknownKey == UnknownDecision({"StringLiteral", "Word"})

\* q = true before x = true and z true, decoded as Plain: the one error is
\* Unknown property q, and x and z, which come after it, are set.
C20_Witness ==
  /\ last.op = "Plain"
  /\ IsBlock(Before)
  /\ Len(DeclarationsOf(Before)) = 3
  /\ Occurrences(DeclarationsOf(Before), <<"q">>) = {1}
  /\ Len(DeclarationsOf(Before)[1]) = 3
  /\ IsSymbolEq(DeclarationsOf(Before)[1][2])
  /\ Occurrences(DeclarationsOf(Before), <<"x">>) = {2}
  /\ Occurrences(DeclarationsOf(Before), <<"z">>) = {3}
  /\ last.tag = "Ok"
  /\ Len(NewErrors) = 1
  /\ NewErrors[1].message = <<"Unknown {} {} in {}.", "property", <<"q">>, "Plain">>
  /\ NewErrors[1].span = DeclarationsOf(Before)[1][1].span

IsDecodeError(e) ==
  e.message[1] \in {"Expected true or false.", "Expected true or false, found {}."}

\* C21: in block style, an `items` field has the value of every declaration
\* whose key is the name of the field, in the order of the source, and is
\* empty when there is none; it is never reported as missing: the result is
\* a value whenever no property or item field without a default is absent.  A
\* declaration of the field whose value does not decode records the error of
\* the decode, which is not fatal: the declarations after it are scanned.
C21_ItemsCollected ==
  last.op \in RecordOps =>
    LET Good(item) == Len(item) = 2 /\ Clean(TBool, <<item[2]>>)
        Values(good) == [n \in 1..Len(good) |-> ValueOf(TBool, <<good[n][2]>>)]
        Failed(bad, errors) ==
          /\ Len(errors) = Len(bad)
          /\ \A n \in 1..Len(bad) :
               Len(bad[n]) = 2 => errors[n].span = bad[n][2].span
        Collected(S, p, items) ==
          LET Named(item) == HasKey(item, S.fields[p].name)
              Decodes(item) == Named(item) /\ Good(item)
              Fails(item) == Named(item) /\ ~Good(item)
          IN /\ Failed(SelectSeq(items, Fails), SelectSeq(NewErrors, IsDecodeError))
             /\ last.tag = "Ok" => last.val[p] = Values(SelectSeq(items, Decodes))
        Scanned(S, items) ==
          /\ last.tag # "Panic"
          /\ last.tag = "Ok" <=> Absent(S, items) = <<>>
          /\ \A p \in 1..Len(S.fields) :
               S.fields[p].kind = "ItemList" => Collected(S, p, items)
        Block(S, items) ==
          (\A j \in 1..Len(items) : Declared(S, items[j])) => Scanned(S, items)
        Decoded(S, l) == IsBlock(l) => Block(S, DeclarationsOf(l))
        Shape(S) == PrefixClean(S, Before) => Decoded(S, AfterPrefix(S, Before))
    IN Shape(ShapeOf(last.op))

\* t true, t 5, t false and x = true decoded as Tagged: t is true and false,
\* the value 5 is the one error, and x, which comes last, is set.
C21_Witness ==
  /\ last.op = "Tagged"
  /\ IsBlock(Before)
  /\ Len(DeclarationsOf(Before)) = 4
  /\ Occurrences(DeclarationsOf(Before), <<"t">>) = {1, 2, 3}
  /\ Len(DeclarationsOf(Before)[2]) = 2
  /\ DeclarationsOf(Before)[2][2].kind = "Integer"
  /\ last.tag = "Ok"
  /\ last.val = <<TRUE, <<TRUE, FALSE>>>>
  /\ Len(NewErrors) = 1
  /\ NewErrors[1].message[1] = "Expected true or false, found {}."
  /\ NewErrors[1].span = DeclarationsOf(Before)[2][2].span

----------------------------------------------------------------------------
(* SpecTupleStyle: the client of SpecReader decoding structs that derive   *)
(* FromIdn in tuple style, with fields of type u8.  Triple has two         *)
(* required fields and a third with the default 7, all of the default      *)
(* kind; TripleItems, PairItems and SingleItems have fields marked `items`,*)
(* two required and one with the default 7, two required, one required.    *)
(* The texts are a tuple of at most MaxStyleItems items, alone or before   *)
(* one more element, and texts that are no tuple.                          *)

MaxStyleItems == 4

StyleFields(kind, n, defaults) ==
  [p \in 1..n |-> Field(<<DigitChar(p - 1)>>, kind,
                        IF p \in defaults THEN <<7>> ELSE <<>>, TUint(8))]

Triple == [desc |-> "Triple", fields |-> StyleFields("Property", 3, {3})]

TripleItems == [desc |-> "TripleItems", fields |-> StyleFields("ItemList", 3, {3})]

PairItems == [desc |-> "PairItems", fields |-> StyleFields("ItemList", 2, {})]

SingleItems == [desc |-> "SingleItems", fields |-> StyleFields("ItemList", 1, {})]

TupleShapes == {Triple, TripleItems, PairItems, SingleItems}

StyleItemTexts == {<<"1">>, <<"2">>, <<"3", "0", "0">>, <<"a">>}

StyleTuples(n) ==
  {RenderGroup("(", ")", items, [j \in 1..IntMax(n - 1, 0) |-> sep], FALSE) :
     items \in [1..n -> StyleItemTexts], sep \in ItemSeparators}

StyleInputs ==
  UNION {StyleTuples(n) : n \in 0..MaxStyleItems}
    \cup {t \o <<" ", "2">> : t \in StyleTuples(1) \cup StyleTuples(2)}
    \cup {<<>>, <<"1">>, <<"{", "1", "}">>}

InitTupleStyle == InitClient(StyleInputs)

ReadTupleStyle(i, S, x) == Call(S.desc, i, x, <<>>, last.n + 1)

NextTupleStyle ==
  \/ \E i \in Held, S \in TupleShapes :
       ReadTupleStyle(i, S, TupleStyleFromIdn(S, Heap, readers[i]))

SpecTupleStyle == InitTupleStyle /\ [][NextTupleStyle]_vars

\* What the decode of a struct of the given shapes in tuple style gives: a
\* fatal error unless the next element is a group in parentheses; the items of
\* the group assigned to the fields in their order, a field after the last
\* item taking its default; for the first field without an item and without
\* a default the fatal error Expected n elements in ..., n the number of
\* fields without a default, at least n when a field has a default; for an
\* item that u8 does not decode a fatal error; otherwise the value, and one
\* error that is not fatal when the group has more items than fields.
TupleDecision(shapes) ==
  last.op \in {S.desc : S \in shapes} =>
    LET Shape == CHOOSE S \in shapes : S.desc = last.op
        IsTuple(l) == l # <<>> /\ IsOpen(l[1]) /\ l[1].value = "("
        Required(S) == {p \in 1..Len(S.fields) : S.fields[p].default = <<>>}
        Message(S) ==
          <<"Expected {}{} element{} in {}.",
            IF \E p \in 1..Len(S.fields) : S.fields[p].default # <<>>
              THEN "at least " ELSE "",
            Cardinality(Required(S)),
            IF Cardinality(Required(S)) = 1 THEN "" ELSE "s",
            S.desc>>
        Fails(S, items, p) ==
          \/ p <= Len(items) /\ ~Clean(TUint(8), items[p])
          \/ p > Len(items) /\ S.fields[p].default = <<>>
        Failed(S, items, p) ==
          /\ last.tag = "Err"
          /\ cells = last.cells
          /\ p > Len(items) => last.err[1].message = Message(S)
          /\ p <= Len(items) => last.err[1].message # Message(S)
        Value(S, items, rest) ==
          /\ last.tag = "Ok"
          /\ \A p \in 1..Len(S.fields) :
               last.val[p] = IF p <= Len(items) THEN ValueOf(TUint(8), items[p])
                             ELSE S.fields[p].default[1]
          /\ Len(NewErrors) = (IF Len(items) > Len(S.fields) THEN 1 ELSE 0)
                                + (IF rest # <<>> THEN 1 ELSE 0)
          /\ \A n \in 1..Len(NewErrors) : NewErrors[n].message[1] = "Unexpected {}."
          /\ Len(items) > Len(S.fields) =>
               NewErrors[1].span = items[Len(S.fields) + 1][1].span
        Assigned(S, items, rest, bad) ==
          IF bad = {} THEN Value(S, items, rest)
          ELSE Failed(S, items, CHOOSE p \in bad : \A q \in bad : p <= q)
        Group(S, l, q) ==
          Assigned(S, Items(SubSeq(l, 2, q - 1)), SubSeq(l, q + 1, Len(l)),
                   {p \in 1..Len(S.fields) : Fails(S, Items(SubSeq(l, 2, q - 1)), p)})
    IN /\ ~IsTuple(Before) => Fatal({"Expected {}...{}.", "Expected {}...{}, found {}."})
       /\ IsTuple(Before) => Group(Shape, Before, ElementEnd(Before, 1))

\* C22: in tuple style the struct requires a group in parentheses whose items
\* are assigned to the fields in declared order; when the list is exhausted
\* a field with a default takes its default and a field without one is the
\* fatal error that cites the number of required fields, at least when some
\* field has a default: for two required fields and one with a default,
\* (1, 2) is a value with the default for the third and (1) is Expected at
\* least 2 elements; items beyond the fields add an error that is not fatal.
C22_TupleStyle == TupleDecision(TupleShapes)

\* The same for the structs whose fields are all marked `items`, the ones for
\* which the emitted code is accepted by the compiler.
TupleStyleOfItems == TupleDecision({TripleItems, PairItems, SingleItems})

----------------------------------------------------------------------------
(* SpecEscape: lex, one pass of the loop of Lexer::run per step as in      *)
(* SpecLex, on the texts of at most MaxEscapeLen characters made of a      *)
(* quote, the backslash, the letters a and n and the space: strings with   *)
(* escapes, words and spaces.                                              *)

MaxEscapeLen == 6

EscapeAlphabet == {"\"", "\\", "a", "n", " "}

InitEscape ==
  /\ input \in Strings(EscapeAlphabet, MaxEscapeLen)
  /\ lexer = LexerNew(input)
  /\ lexres = [tag |-> "none"]
  /\ last = [op |-> "none", before |-> lexer, err |-> <<>>]
  /\ IdleDriver

NextEscape ==
  \/ LexString
  \/ LexWord
  \/ LexWhitespace
  \/ LexSymbol
  \/ LexEnd

SpecEscape == InitEscape /\ [][NextEscape]_vars

\* Whether the character at k is the backslash of an escape inside a string
\* literal: the scan of the text from p, inside a string opened by the quote
\* in open or, when open is empty, outside one.
RECURSIVE EscapeAt(_, _, _, _)
EscapeAt(text, k, p, open) ==
  IF p > k \/ p > Len(text) THEN FALSE
  ELSE IF p = k THEN open # <<>> /\ text[p] = "\\" /\ p < Len(text)
  ELSE IF open # <<>> /\ text[p] = "\\" THEN EscapeAt(text, k, p + 2, open)
  ELSE IF open # <<>> /\ text[p] = open[1] THEN EscapeAt(text, k, p + 1, <<>>)
  ELSE IF open = <<>> /\ text[p] \in {"\"", "'"} THEN EscapeAt(text, k, p + 1, <<text[p]>>)
  ELSE EscapeAt(text, k, p + 1, open)

\* The kinds and the values of the tokens, without their spans.
Unspanned(tokens) ==
  [j \in 1..Len(tokens) |-> [kind |-> tokens[j].kind, value |-> tokens[j].value]]

\* What lex leaves for a text whose only defect is one unknown escape in a
\* string literal, the text without the escape being one that lex accepts:
\* the one error Unknown string escape at the escaped character; the whole
\* text scanned; the tokens of the text without the escape, the string with
\* what remains of its contents among them; and lex returning these tokens,
\* when returned says so, or the list of the one error.
EscapeDecision(returned) ==
  lexres.tag # "none" =>
    \A k \in 1..(Len(input) - 1) :
      LET Without == SubSeq(input, 1, k - 1) \o SubSeq(input, k + 2, Len(input))
          Recovered(clean) ==
            /\ Len(lexer.errors) = 1
            /\ lexer.errors[1].message = <<"Unknown string escape {}.", input[k + 1]>>
            /\ lexer.errors[1].span.start.offset = k
            /\ lexer.errors[1].span.end.offset = k + 1
            /\ lexer.pos.offset = Len(input)
            /\ Unspanned(lexer.tokens) = Unspanned(clean.tokens.list)
            /\ returned => lexres.tag = "Ok" /\ lexres.tokens.list = lexer.tokens
            /\ ~returned => lexres.tag = "Err" /\ lexres.errors = lexer.errors
          OnlyDefect(clean) == clean.tag = "Ok" => Recovered(clean)
      IN /\ EscapeAt(input, k, 1, <<>>)
         /\ input[k + 1] \notin {"n", "r", "\\", "'", "\""}
         => OnlyDefect(Lex(Without, 1))

\* C23 as the claim states it: the value is still returned.
C23_ValueReturned == EscapeDecision(TRUE)

\* C23: for a text whose only defect is one unknown escape inside a string
\* literal, exactly one error is accumulated, for that escape; the backslash
\* and the escaped character are dropped from the contents of the string;
\* the scan continues through the rest of the string and of the text, and the
\* lexer builds the token of the string from what remains of it; lex itself
\* returns the list of that one error and no tokens.
C23_EscapeDropped == EscapeDecision(FALSE)

\* The escape \a before a in a string that a word follows: the string a, the
\* word a, one error.
C23_Witness ==
  /\ input = <<"\"", "\\", "a", "a", "\"", "a">>
  /\ lexres.tag = "Err"
  /\ Len(lexres.errors) = 1
  /\ Len(lexer.tokens) = 2
  /\ lexer.tokens[1].kind = "StringLiteral"
  /\ lexer.tokens[1].value = <<"a">>
  /\ lexer.tokens[2].kind = "Word"

----------------------------------------------------------------------------
(* SpecOption: the client of SpecReader decoding Option<bool>,             *)
(* Option<String> and Option<u8> with read, from texts of at most          *)
(* MaxOptionWords lexemes: the word none in three spellings, the string    *)
(* "none", and a bool, a number and a word that are not none.              *)

MaxOptionWords == 3

OptionLexicon ==
  {<<"n", "o", "n", "e">>, <<"N", "o", "n", "e">>, <<"N", "O", "N", "E">>,
   <<"\"", "n", "o", "n", "e", "\"">>, <<"t", "r", "u", "e">>, <<"5">>, <<"n", "o">>}

TOption(T) == [k |-> "Option", t |-> T]

InitOption == InitClient(Texts(OptionLexicon, MaxOptionWords))

ReadOption(op, i, x) == Call(op, i, x, <<>>, last.n + 1)

ReadOptionBool(i) ==
  ReadOption("read_option_bool", i, FromIdn(TOption(TBool), Heap, readers[i]))

ReadOptionString(i) ==
  ReadOption("read_option_string", i, FromIdn(TOption(TString), Heap, readers[i]))

ReadOptionUint(i) ==
  ReadOption("read_option_u8", i, FromIdn(TOption(TUint(8)), Heap, readers[i]))

NextOption ==
  \/ \E i \in Held : ReadOptionBool(i)
  \/ \E i \in Held : ReadOptionString(i)
  \/ \E i \in Held : ReadOptionUint(i)

SpecOption == InitOption /\ [][NextOption]_vars

OptionOps == {"read_option_bool", "read_option_string", "read_option_u8"}

\* The T of the Option<T> the last call decoded.
OptionOf(op) ==
  CASE op = "read_option_bool" -> TBool
    [] op = "read_option_string" -> TString
    [] OTHER -> TUint(8)

\* The next token is the word none, in these letters exactly.
NextIsNone(tokens) ==
  /\ tokens # <<>>
  /\ tokens[1].kind = "Word"
  /\ tokens[1].value = <<"n", "o", "n", "e">>

\* C24: Option<T> decoded from a reader whose next token is the word none,
\* in lower case exactly, is the absent variant, that one token consumed and
\* nothing else changed; from any other reader (None, NONE and the string
\* "none" among the next tokens) it is what T decodes from the same reader,
\* wrapped as present, or the fatal error of T, the reader and the error
\* list left as T leaves them.
C24_OptionNone ==
  last.op \in OptionOps =>
    LET Inner == FromIdn(OptionOf(last.op), [cells |-> last.cells, log |-> <<>>], last.before)
    IN IF NextIsNone(Before)
         THEN /\ last.tag = "Ok"
              /\ last.val = <<>>
              /\ TokensList(readers[last.i].tokens) = Tail(Before)
              /\ cells = last.cells
         ELSE /\ last.tag = Inner.tag
              /\ Inner.tag = "Ok" => last.val = <<Inner.val>>
              /\ Inner.tag = "Err" => last.err = Inner.err
              /\ readers[last.i] = Inner.r
              /\ cells = Inner.h.cells

\* Option<String> decoded from None none: present with the text None, and
\* the word none left to read.
C24_Witness ==
  /\ last.op = "read_option_string"
  /\ input = <<"N", "o", "n", "e", " ", "n", "o", "n", "e">>
  /\ Len(Before) = 2
  /\ last.tag = "Ok"
  /\ last.val = <<<<"N", "o", "n", "e">>>>
  /\ NextIsNone(TokensList(readers[last.i].tokens))

----------------------------------------------------------------------------
(* SpecIsolation: MaxParses calls of parse in one process, their steps     *)
(* interleaved in every order.  input[c] is the text and the type of call  *)
(* c, result[c] its position, the result of its lex, of its read_to_end    *)
(* and of the call; readers[c] holds its reader once made.  The heap of    *)
(* cells is the one heap of the process.                                   *)

MaxParses == 3

IsolationTexts ==
  {<<"t", "r", "u", "e">>, <<"t", "r", "u", "e", " ", "5">>, <<"(">>,
   <<"(", "(", ")", ",", "5", ")">>, <<"(", "(", ")", ",", "t", "r", "u", "e", ")">>}

IsolationTypes == {TBool, TTuple(<<TUnit, TBool>>)}

ParseCalls == 1..MaxParses

InitIsolation ==
  /\ input \in [ParseCalls -> [text : IsolationTexts, ty : IsolationTypes]]
  /\ lexer = LexerNew(<<>>)
  /\ lexres = [tag |-> "none"]
  /\ pc = "calls"
  /\ cells = <<>>
  /\ log = <<>>
  /\ readers = [c \in ParseCalls |-> <<>>]
  /\ last = [op |-> "none", c |-> 0]
  /\ ty = [k |-> "none"]
  /\ result = [c \in ParseCalls |->
                 [pc |-> "start", lexres |-> [tag |-> "none"],
                  last |-> [op |-> "none", tag |-> "none", val |-> <<>>, err |-> <<>>],
                  result |-> [tag |-> "none"]]]

\* let mut reader = Reader::new(input.as_ref().parse()?); of call c
IsolatedLex(c, res, new) ==
  /\ result[c].pc = "start"
  /\ IF res.tag = "Err"
       THEN /\ result' = [result EXCEPT ![c].lexres = res, ![c].pc = "done",
                                        ![c].result = [tag |-> "Err", errors |-> res.errors]]
            /\ UNCHANGED <<cells, log, readers>>
       ELSE /\ result' = [result EXCEPT ![c].lexres = res, ![c].pc = "lexed"]
            /\ cells' = new.h.cells
            /\ log' = new.h.log
            /\ readers' = [readers EXCEPT ![c] = <<new.r>>]
  /\ last' = [op |-> "lex", c |-> c]
  /\ UNCHANGED <<input, lexer, lexres, pc, ty>>

\* let result: Result<T> = reader.read_to_end(); of call c
IsolatedReadToEnd(c, x) ==
  /\ result[c].pc = "lexed"
  /\ cells' = x.h.cells
  /\ log' = x.h.log
  /\ readers' = [readers EXCEPT ![c] = <<x.r>>]
  /\ result' = [result EXCEPT ![c].pc = "read",
                              ![c].last = [op |-> "read_to_end", tag |-> x.tag,
                                           val |-> x.val, err |-> x.err]]
  /\ last' = [op |-> "read_to_end", c |-> c]
  /\ UNCHANGED <<input, lexer, lexres, pc, ty>>

\* let mut errors = reader.errors().clone(); match result { ... } of call c
IsolatedReturn(c, errors) ==
  /\ result[c].pc = "read"
  /\ result' = [result EXCEPT ![c].pc = "done",
                              ![c].result = IF result[c].last.tag = "Panic"
                                              THEN [tag |-> "Panic"]
                                              ELSE ParseResult(result[c].last, errors)]
  /\ last' = [op |-> "return", c |-> c]
  /\ UNCHANGED <<input, lexer, lexres, pc, cells, log, readers, ty>>

\* The token buffer of call c, or an empty one when its lex failed.
BufferOf(c) ==
  IF Lex(input[c].text, c).tag = "Ok" THEN Lex(input[c].text, c).tokens
  ELSE TokensNew(c, SpanOfPos(PosDefault), <<>>)

NextIsolation ==
  \/ \E c \in ParseCalls : IsolatedLex(c, Lex(input[c].text, c), ReaderNew(Heap, BufferOf(c)))
  \/ \E c \in ParseCalls : IsolatedReadToEnd(c, ReaderReadToEnd(input[c].ty, Heap, readers[c][1]))
  \/ \E c \in ParseCalls : IsolatedReturn(c, ReaderErrors(Heap, readers[c][1]))

SpecIsolation == InitIsolation /\ [][NextIsolation]_vars

Returned(c) == result[c].pc = "done"

\* C25: two calls of parse on the same text for the same type, run in any
\* order and interleaved with each other and with calls on other texts,
\* return equal results: the same value, or error lists with the same
\* messages and spans in the same order.  Each call has a token buffer and a
\* Context, with its ErrorList, of its own.
C25_ParsesIsolated ==
  \A c, d \in ParseCalls :
    c # d =>
      /\ input[c] = input[d] /\ Returned(c) /\ Returned(d) =>
           result[c].result = result[d].result
      /\ readers[c] # <<>> /\ readers[d] # <<>> =>
           /\ readers[c][1].ctx.errors # readers[d][1].ctx.errors
           /\ readers[c][1].tokens.id # readers[d][1].tokens.id

\* Calls 1 and 2 on one text and call 3 on another, the reader of call 3
\* made between those of 1 and 2, each of the three returning errors.
C25_Witness ==
  /\ \A c \in ParseCalls : Returned(c) /\ result[c].result.tag = "Err" /\ readers[c] # <<>>
  /\ input[1] = input[2]
  /\ input[3].text # input[1].text
  /\ readers[1][1].ctx.errors < readers[3][1].ctx.errors
  /\ readers[3][1].ctx.errors < readers[2][1].ctx.errors
  /\ Len(result[1].result.errors) = 2

----------------------------------------------------------------------------
(* SpecProperty: the client of SpecReader reading properties and           *)
(* declarations, and single elements to advance a window first, from texts *)
(* of at most MaxPropertyElements elements: a word, the Symbol = and a     *)
(* group.                                                                  *)

MaxPropertyElements == 4

PropertyTexts == {<<"a">>, <<"=">>, <<"(", "a", ",", "a", ")">>}

InitProperty == InitClient(Texts(PropertyTexts, MaxPropertyElements))

NextProperty ==
  \/ \E i \in Held : TryReadElement(i, ElementTryFromIdn(Heap, readers[i]))
  \/ \E i \in Held : ReadProperty(i, FromIdn([k |-> "Property"], Heap, readers[i]))
  \/ \E i \in Held : ReadDeclaration(i, FromIdn([k |-> "Declaration"], Heap, readers[i]))

SpecProperty == InitProperty /\ [][NextProperty]_vars

\* The window l holds key = rest: its first element, then the Symbol =.
HoldsProperty(l) ==
  /\ l # <<>>
  /\ ~IsClose(l[1])
  /\ ElementEnd(l, 1) < Len(l)
  /\ IsSymbolEq(l[ElementEnd(l, 1) + 1])

\* The Property p has the first element of l alone for the window of its
\* key, the = after it, and every token after the = for the window of its
\* value.
PropertyOver(l, p) ==
  /\ TokensList(p.key.tokens) = SubSeq(l, 1, ElementEnd(l, 1))
  /\ p.eq = l[ElementEnd(l, 1) + 1]
  /\ TokensList(p.value.tokens) = SubSeq(l, ElementEnd(l, 1) + 2, Len(l))

\* C26: a Property read from a window holding key = rest has a key reader
\* over the first element and nothing else, the Symbol =, and a value reader
\* over every token after the =; a Declaration read there is that Property
\* when its key is one token, and a Declaration that is an Item is a reader
\* over the whole window.  Either read leaves the source reader empty and adds
\* no error to the ErrorList.
C26_PropertyWindows ==
  LET Emptied ==
        /\ TokensIsEmpty(readers[last.i].tokens)
        /\ cells = last.cells
  IN /\ last.op = "read_property" /\ HoldsProperty(Before) =>
          /\ last.tag = "Ok"
          /\ PropertyOver(Before, last.val)
          /\ Emptied
     /\ last.op = "read_declaration" /\ last.tag = "Ok" /\ last.val.kind = "Property" =>
          /\ HoldsProperty(Before)
          /\ PropertyOver(Before, last.val.decl)
          /\ Emptied
     /\ last.op = "read_declaration" /\ last.tag = "Ok" /\ last.val.kind = "Item" =>
          /\ TokensList(last.val.decl.tokens) = Before
          /\ Emptied

\* A Property read from (a, a) = a =: the key is the group, the value a =.
C26_Witness ==
  /\ last.op = "read_property"
  /\ Len(Before) = 8
  /\ IsOpen(Before[1])
  /\ last.tag = "Ok"
  /\ Len(TokensList(last.val.key.tokens)) = 5
  /\ Len(TokensList(last.val.value.tokens)) = 2
  /\ TokensIsEmpty(readers[last.i].tokens)

----------------------------------------------------------------------------
(* SpecNumberLex: lex, one pass of the loop of Lexer::run per step as in   *)
(* SpecLex, on the texts of at most MaxNumberLen characters made of two    *)
(* digits, the point, the exponent markers and the signs.                  *)

MaxNumberLen == 5

NumberAlphabet == {"1", "5", ".", "e", "E", "+", "-"}

InitNumberLex ==
  /\ input \in Strings(NumberAlphabet, MaxNumberLen)
  /\ lexer = LexerNew(input)
  /\ lexres = [tag |-> "none"]
  /\ last = [op |-> "none", before |-> lexer, err |-> <<>>]
  /\ IdleDriver

NextNumberLex ==
  \/ LexNumberDecimal
  \/ LexNumber
  \/ LexWord
  \/ LexSymbol
  \/ LexEnd

SpecNumberLex == InitNumberLex /\ [][NextNumberLex]_vars

IsDigitAt(text, p) == p >= 1 /\ p <= Len(text) /\ text[p] \in Digits

\* The index of the last digit of the run of digits of text that starts at p,
\* or p - 1 when no digit is at p.
RECURSIVE DigitRun(_, _)
DigitRun(text, p) == IF IsDigitAt(text, p) THEN DigitRun(text, p + 1) ELSE p - 1

\* The end of the part of a number that starts at p with one of the marks
\* and has at least one digit after the mark, or p - 1 when no such part
\* starts at p.
PartEnd(text, p, marks) ==
  IF p <= Len(text) /\ text[p] \in marks /\ IsDigitAt(text, p + 1)
    THEN DigitRun(text, p + 1)
    ELSE p - 1

FractionEnd(text, p) == PartEnd(text, DigitRun(text, p) + 1, {"."})

\* The index of the last character of the longest number that starts at p:
\* digits or none, a fraction or none, an exponent or none.
NumberEnd(text, p) == PartEnd(text, FractionEnd(text, p) + 1, {"e", "E"})

\* What a pass of the lexer on a number makes of the text from the position
\* it started at, for the texts where the character after the digits and the
\* fraction is one of stops or the marker of an exponent with its digits:
\* the token of the longest number there, an Integer unless it has a fraction
\* or an exponent, the lexer left at the character after it, and no error.
NumberDecision(stops) ==
  last.op \in {"number", "number_decimal"} =>
    LET p == last.before.pos.offset + 1
        f == FractionEnd(input, p)
        q == NumberEnd(input, p)
        Token == lexer.tokens[Len(lexer.tokens)]
        Longest ==
          /\ last.err = <<>>
          /\ Len(lexer.tokens) = Len(last.before.tokens) + 1
          /\ Token.kind = (IF q = DigitRun(input, p) THEN "Integer" ELSE "Float")
          /\ Token.span.start.offset = p - 1
          /\ Token.span.end.offset = q
          /\ lexer.pos.offset = q
          /\ \A j \in p..q : input[j] \notin {"+", "-"}
    IN (q > f \/ f = Len(input) \/ input[f + 1] \in stops) => Longest

\* C27 as the claim states it: a number token is the longest match of digits
\* or a point and digits, then a point and digits or nothing, then e or E and
\* digits or nothing; it is an Integer unless it has a fraction or an
\* exponent; a point, an e or an E with no digit after it ends the token and
\* starts the next one; no sign is part of the token.
C27_LongestNumber == NumberDecision(NumberAlphabet)

\* The same for the numbers that no e or E without a digit after it follows.
NumberBeforeNoMarker == NumberDecision(NumberAlphabet \ {"e", "E"})

\* The pass on 1e+5 that aborted at the sign.
NumberAborted ==
  /\ input = <<"1", "e", "+", "5">>
  /\ last.op = "number"
  /\ last.err # <<>>
  /\ last.err[1].message = <<"Expected digit, found {}.", "+">>
  /\ lexres.tag = "Err"

----------------------------------------------------------------------------
(* SpecBalance: the client of SpecReader making every operation of a       *)
(* Reader on the readers it holds, from the texts of at most               *)
(* MaxBalanceElements elements, groups in groups and single delimiters     *)
(* among them, that lex accepts.                                           *)

MaxBalanceElements == 2

BalanceTexts ==
  {<<"a">>, <<",">>, <<"=">>, <<"(">>, <<")">>, <<"(", "a", ")">>,
   <<"(", "(", "a", ")", ",", "a", ")">>, <<"[", "(", "\n", ")", "]">>}

InitBalance == InitClient(Texts(BalanceTexts, MaxBalanceElements))

Skip(i, x) == Call("skip", i, x, <<>>, last.n + 1)

NextBalance ==
  \/ \E i \in Held : ReadElement(i, ElementFromIdn(Heap, readers[i]))
  \/ \E i \in Held : TryReadElement(i, ElementTryFromIdn(Heap, readers[i]))
  \/ \E i \in Held : Skip(i, ReaderSkip(Heap, readers[i]))
  \/ \E i \in Held : Finish(i, ReaderFinish(Heap, readers[i]))
  \/ \E i \in Held, open \in {"(", "["} :
       ReadGroup(i, ReaderReadGroup(Heap, readers[i], open))
  \/ \E i \in Held, open \in {"(", "["} :
       TryReadGroup(i, ReaderTryReadGroup(Heap, readers[i], open))
  \/ \E i \in Held : ListReaderNext(i, ListNext(Heap, readers[i]))
  \/ \E i \in Held : NextLine(i, ReaderNextLine(Heap, readers[i]))
  \/ \E i \in Held : ReadProperty(i, FromIdn([k |-> "Property"], Heap, readers[i]))
  \/ \E i \in Held : ReadDeclaration(i, FromIdn([k |-> "Declaration"], Heap, readers[i]))

SpecBalance == InitBalance /\ [][NextBalance]_vars

\* Every delimiter opened in l is closed in l, and none is closed before it
\* is opened.
Balanced(l) ==
  /\ Depth(l, 1, Len(l)) = 0
  /\ \A j \in 1..Len(l) : Depth(l, 1, j) >= 0

BalancedReader(r) ==
  /\ Balanced(TokensList(r.tokens))
  /\ TokensList(r.tokens) # <<>> => ~IsClose(TokensList(r.tokens)[1])

\* C29: the window of every reader reached from Reader::new(lex(input))
\* through the operations of a Reader, the readers the last call returned
\* among them, is balanced in its delimiters and does not start with a
\* closing delimiter; and no call hit the unwrap of Group::try_from_tokens,
\* the unreachable! of the decode of an Element or an expect of a
\* try-variant.
C29_WindowsBalanced ==
  /\ \A i \in Held : BalancedReader(readers[i])
  /\ \A j \in 1..Len(ReadersOf(last.op, last)) : BalancedReader(ReadersOf(last.op, last)[j])
  /\ last.tag # "Panic"
  /\ pc # "panicked"

\* The contents of the inner group of ((a), a) a, reached through two calls
\* of read_group.
C29_Witness ==
  /\ input = <<"(", "(", "a", ")", ",", "a", ")", " ", "a">>
  /\ last.op = "read_group"
  /\ last.n = 2
  /\ last.tag = "Ok"
  /\ Len(Before) = 5
  /\ Len(TokensList(last.val.contents.tokens)) = 1
  /\ Len(TokensList(readers[last.i].tokens)) = 2

----------------------------------------------------------------------------
(* SpecList: a caller of ListReader::next going through a list until next  *)
(* returns None.  The list is the window of the root reader or, when the   *)
(* caller first reads the group the text starts with, the contents of that *)
(* group.  result holds the window the list started with, the windows of   *)
(* the items returned so far and the number of calls made.                 *)

MaxListElements == 4
MaxListCalls == 48

ListTexts ==
  {<<"a">>, <<",">>, <<"(", "a", ",", "a", ")">>,
   <<"(", ",", "a", "\n", "(", "a", ",", "a", ")", ",", ")">>}

InitList ==
  /\ input \in Texts(ListTexts, MaxListElements)
  /\ lexer = LexerNew(input)
  /\ lexres = Lex(input, 1)
  /\ lexres.tag = "Ok"
  /\ cells = ReaderNew(HeapNew, lexres.tokens).h.cells
  /\ log = <<>>
  /\ readers = <<ReaderNew(HeapNew, lexres.tokens).r>>
  /\ last = [op |-> "new", i |-> 1, before |-> readers[1], cells |-> cells,
             tag |-> "Ok", val |-> <<>>, err |-> <<>>, n |-> 0]
  /\ pc = "client"
  /\ ty = [k |-> "none"]
  /\ result = [tag |-> "listing", window |-> lexres.tokens, items |-> <<>>, calls |-> 0]

\* reader.read_group('(') and read_list() on its contents, before any call
\* of next.
EnterGroup(x) ==
  /\ pc = "client"
  /\ result.tag = "listing"
  /\ result.calls = 0
  /\ last.op = "new"
  /\ x.tag = "Ok"
  /\ cells' = x.h.cells
  /\ log' = x.h.log
  /\ readers' = <<x.val.contents>>
  /\ last' = [op |-> "read_group", i |-> 1, before |-> readers[1], cells |-> cells,
              tag |-> x.tag, val |-> x.val, err |-> x.err, n |-> 0]
  /\ result' = [result EXCEPT !.window = x.val.contents.tokens]
  /\ UNCHANGED <<input, lexer, lexres, pc, ty>>

\* list.next(), x what it returned.
ListCall(x) ==
  /\ pc = "client"
  /\ result.tag = "listing"
  /\ result.calls < MaxListCalls
  /\ cells' = x.h.cells
  /\ log' = x.h.log
  /\ readers' = <<x.r>>
  /\ last' = [op |-> "list_next", i |-> 1, before |-> readers[1], cells |-> cells,
              tag |-> x.tag, val |-> x.val, err |-> x.err, n |-> result.calls + 1]
  /\ result' = [result EXCEPT
                  !.tag = IF x.tag = "Ok" /\ x.val # <<>> THEN "listing" ELSE "done",
                  !.items = IF x.tag = "Ok" /\ x.val # <<>> THEN Append(@, x.val[1].tokens)
                            ELSE @,
                  !.calls = @ + 1]
  /\ pc' = IF x.tag = "Panic" THEN "panicked" ELSE "client"
  /\ UNCHANGED <<input, lexer, lexres, ty>>

NextList ==
  \/ \E x \in {ReaderReadGroup(Heap, readers[1], "(")} : EnterGroup(x)
  \/ \E x \in {ListNext(Heap, readers[1])} : ListCall(x)

SpecList == InitList /\ [][NextList]_vars

\* NextList is enabled exactly when list.next() can be called.
CanCall == pc = "client" /\ result.tag = "listing" /\ result.calls < MaxListCalls

\* The caller goes on calling next while it has not returned None: weak
\* fairness of NextList, with its enabling condition written out.
SpecListFair == SpecList /\ ([]<>(~CanCall) \/ []<><<NextList>>_vars)

\* The token at index p of the array is a comma outside every group of the
\* window w.
TopLevelComma(w, p) == IsComma(w.list[p]) /\ Depth(w.list, w.start + 1, p - 1) = 0

\* The indices in the array of the tokens of the window w.
Indices(w) == (w.start + 1)..w.end

ListBounds ==
  LET w == result.window
      its == result.items
      Taken == UNION {Indices(its[j]) : j \in 1..Len(its)}
  IN /\ pc = "client"
     /\ Len(its) <= Len(TokensList(w))
     /\ result.calls <= Len(TokensList(w)) + 1
     /\ result.tag = "done" => last.val = <<>> /\ result.calls = Len(its) + 1
     /\ last.op = "list_next" /\ Before # <<>> =>
          Len(TokensList(readers[1].tokens)) < Len(Before)
     /\ \A j \in 1..Len(its) :
          /\ its[j].id = w.id /\ its[j].list = w.list
          /\ Indices(its[j]) \subseteq Indices(w)
          /\ its[j].start < w.end
          /\ TokensIsEmpty(its[j]) <=> IsComma(w.list[its[j].start + 1])
     /\ \A j, k \in 1..Len(its) : j < k => its[j].end <= its[k].start
     /\ \A p \in Taken : ~TopLevelComma(w, p)
     /\ result.tag = "done" =>
          \A p \in Indices(w) : p \notin Taken => TopLevelComma(w, p)

====
